---------------------------- MODULE Spec2Model ----------------------------
(***************************************************************************)
(* SAJ H2 Inverter Card Timer (class SajH2InverterCardTimer), modelled as  *)
(* a state machine: one action per handler of the custom element (the      *)
(* hass setter, setConfig, connectedCallback, the DOM listeners, the       *)
(* deferred switch-on) plus the environment's steps (clock, focus).        *)
(*                                                                         *)
(* Conventions of the model                                                *)
(*  - A JavaScript string is a sequence of one-character strings, so that  *)
(*    parsing and formatting are computed, e.g. "23:50" is                 *)
(*    <<"2","3",":","5","0">>.                                             *)
(*  - Date.now() is `now`, in ms since the epoch, the local zone being    *)
(*    UTC without daylight saving (1970-01-01 was a Thursday).            *)
(*  - kW values are carried in half-kW units (the slider step is 0.5),    *)
(*    the inverter maximum output in tenths of a kW.                      *)
(*  - A render schedules a requestAnimationFrame callback; the callbacks  *)
(*    pending at a frame run together (AnimationFrame) and attach the     *)
(*    listeners.  An event on an element without listener has the         *)
(*    browser's own effect only.                                          *)
(***************************************************************************)
EXTENDS Integers, Sequences, FiniteSets, TLC

VARIABLES
    mode,            \* this._mode
    inverterMaxOutput, \* this._inverterMaxOutput, in tenths of a kW
    entities,        \* this._entities : role -> entity id
    hass,            \* this._hass : [set, states]
    lastForceUpdate, \* this._lastForceUpdate
    lastTimerCheck,  \* this._lastTimerCheck
    now,             \* Date.now()
    dom,             \* this.shadowRoot.innerHTML, as a tree
    focus,           \* this.shadowRoot.activeElement (an element id or "none")
    timerStore,      \* localStorage 'saj-h2-<type>-timer'
    pendingOn,       \* callbacks queued by setTimeout(..., 100), per direction
    ticks,           \* number of clock advances so far (bounds the model)
    sched,           \* the last new schedule an Enable button wrote (observation only)
    ev               \* what the last handler did (observation only)

vars == <<mode, inverterMaxOutput, entities, hass, lastForceUpdate,
          lastTimerCheck, now, dom, focus, timerStore, pendingOn, ticks,
          sched, ev>>

-----------------------------------------------------------------------------
(* Bounds of the model                                                     *)

\* number of clock advances in a behaviour
MaxTicks == 2
\* number of deferred switch-on callbacks queued per direction
MaxPending == 1
\* how often the percent round trip is applied to its own result
MaxApply == 2

-----------------------------------------------------------------------------
(* Program constants                                                       *)

TimerCheckInterval == 60000
ForceUpdateInterval == 30000
MsPerMinute == 60000
MinutesPerDay == 1440
DefaultMaxOutput == 50
DefaultTimer == 30

Directions == {"charge", "discharge"}

-----------------------------------------------------------------------------
(* Strings                                                                 *)

Digits == <<"0", "1", "2", "3", "4", "5", "6", "7", "8", "9">>
DigitSet == {Digits[i] : i \in 1..10}
DigitMap == [c \in DigitSet |-> CHOOSE n \in 0..9 : Digits[n + 1] = c]
IsDigit(c) == c \in DigitSet
DigitVal(c) == DigitMap[c]
DigitOf(n) == Digits[n + 1]

ON == <<"o", "n">>
OFF == <<"o", "f", "f">>
EmptyStr == << >>
NaNTime == <<"N", "a", "N", ":", "N", "a", "N">>

\* the value of a JS number that is NaN (outside every value the model computes)
NaN == 0 - 1000000

\* String(n).padStart(2, '0') for 0 <= n <= 99
Pad2(n) == <<DigitOf(n \div 10), DigitOf(n % 10)>>

\* /^([01]\d|2[0-3]):([0-5]\d)$/.test(s)
Digits01 == {"0", "1"}
Digits03 == {"0", "1", "2", "3"}
Digits05 == {"0", "1", "2", "3", "4", "5"}
IsHHMM(s) ==
    /\ Len(s) = 5
    /\ \/ s[1] \in Digits01 /\ IsDigit(s[2])
       \/ s[1] = "2" /\ s[2] \in Digits03
    /\ s[3] = ":"
    /\ s[4] \in Digits05
    /\ IsDigit(s[5])

\* the decimal value of the digits of s from position i on, up to the first
\* character that is no digit, continuing the value acc
RECURSIVE ParseDigits(_, _, _)
ParseDigits(s, i, acc) ==
    IF i > Len(s) \/ ~IsDigit(s[i]) THEN acc
    ELSE ParseDigits(s, i + 1, 10 * acc + DigitVal(s[i]))

\* parseInt(s, 10) on a string without leading white space
ParseInt(s) ==
    LET first == IF Len(s) > 0 /\ s[1] \in {"-", "+"} THEN 2 ELSE 1
    IN  IF first > Len(s) \/ ~IsDigit(s[first]) THEN NaN
        ELSE IF s[1] = "-" THEN 0 - ParseDigits(s, first, 0)
        ELSE ParseDigits(s, first, 0)

\* the hexadecimal digits: the one at position n is worth n - 1, a capital
\* letter as much as the small one
HexDigits == <<"0", "1", "2", "3", "4", "5", "6", "7", "8", "9",
               "a", "b", "c", "d", "e", "f", "A", "B", "C", "D", "E", "F">>
IsHexDigit(c) == \E n \in 1..22 : c = HexDigits[n]
HexVal(c) ==
    LET n == CHOOSE k \in 1..22 : c = HexDigits[k]
    IN  IF n <= 16 THEN n - 1 ELSE n - 7

\* the hexadecimal value of the digits of s from position i on
RECURSIVE ParseHexDigits(_, _, _)
ParseHexDigits(s, i, acc) ==
    IF i > Len(s) \/ ~IsHexDigit(s[i]) THEN acc
    ELSE ParseHexDigits(s, i + 1, 16 * acc + HexVal(s[i]))

\* parseInt(s) with no radix on a string without leading white space: a
\* 0x or 0X after the sign makes the digits hexadecimal
ParseIntNoRadix(s) ==
    LET first == IF Len(s) > 0 /\ s[1] \in {"-", "+"} THEN 2 ELSE 1
        hex == /\ first + 1 <= Len(s)
               /\ s[first] = "0"
               /\ s[first + 1] \in {"x", "X"}
    IN  IF ~hex THEN ParseInt(s)
        ELSE IF first + 2 > Len(s) \/ ~IsHexDigit(s[first + 2]) THEN NaN
        ELSE IF s[1] = "-" THEN 0 - ParseHexDigits(s, first + 2, 0)
        ELSE ParseHexDigits(s, first + 2, 0)

\* floor(a / b) for b # 0
FloorDiv(a, b) == IF b > 0 THEN a \div b ELSE (0 - a) \div (0 - b)

-----------------------------------------------------------------------------
(* Percent / kW conversion                                                 *)

\* The conversions compute in IEEE doubles.  For a maximum output of 0.1 to
\* 40.0 kW (and -1.0 kW), a percent of 0..100 and a slider value of 0..max
\* the double result is the exactly rounded one, except where the exact
\* value is a tie n + 1/2 and the double product falls just below it; these
\* pairs are listed and round down.
\* <<kw2, max10>> with (kw / max) * 100 just below its tie
KwTiesBelow == {<<23, 200>>, <<46, 400>>}
\* <<percent, max10>> with ((percent / 100) * max) * 2 just below its tie
PercentTiesBelow == {<<58, 125>>, <<70, 225>>, <<29, 250>>, <<57, 250>>,
                     <<82, 375>>}

\* Math.round((kw / max) * 100), kw in half-kW units (Math.round is
\* floor(x + 1/2)); max is the maximum output in tenths of a kW
_sliderKwToPercentAt(kw2, max10) ==
    FloorDiv(1000 * kw2 + max10, 2 * max10)
    - (IF <<kw2, max10>> \in KwTiesBelow THEN 1 ELSE 0)

\* (variant) the next half kW at or above the share of the maximum
_percentToSliderKwAtCeil(percent, max10) ==
    (2 * percent * max10 + 999) \div 1000

\* Math.round(((percent / 100) * max) * 2) / 2, in half-kW units
_percentToSliderKwAt(percent, max10) ==
    (2 * percent * max10 + 500) \div 1000
    - (IF <<percent, max10>> \in PercentTiesBelow THEN 1 ELSE 0)

_sliderKwToPercent(kw2) == _sliderKwToPercentAt(kw2, inverterMaxOutput)
_percentToSliderKw(percent) == _percentToSliderKwAt(percent, inverterMaxOutput)

\* Math.round((kw / max) * 100), the same computation as _sliderKwToPercent
_kwToPercent(kw2) == _sliderKwToPercentAt(kw2, inverterMaxOutput)

-----------------------------------------------------------------------------
(* Time helpers                                                            *)

\* new Date(t).getHours(), getMinutes(), getDay()
GetHours(t) == (t \div (60 * MsPerMinute)) % 24
GetMinutes(t) == (t \div MsPerMinute) % 60
GetDay(t) == (4 + t \div (MinutesPerDay * MsPerMinute)) % 7

_getCurrentTimeAt(t) == Pad2(GetHours(t)) \o <<":">> \o Pad2(GetMinutes(t))
_getCurrentTime == _getCurrentTimeAt(now)

\* startTime.split(':').map(Number) of an HH:MM string
SplitHours(s) == 10 * DigitVal(s[1]) + DigitVal(s[2])
SplitMinutes(s) == 10 * DigitVal(s[4]) + DigitVal(s[5])

\* the start date is today at hours:minutes, the end date that plus the
\* duration; a NaN duration gives an invalid date, whose fields are NaN
\* (variant) an end time whose hour is not taken modulo 24
_calculateEndTimeSameDay(startTime, durationMinutes) ==
    IF durationMinutes = NaN THEN NaNTime
    ELSE LET total == SplitHours(startTime) * 60 + SplitMinutes(startTime)
                      + durationMinutes
         IN  Pad2(total \div 60) \o <<":">> \o Pad2(total % 60)

_calculateEndTime(startTime, durationMinutes) ==
    IF durationMinutes = NaN THEN NaNTime
    ELSE LET total == SplitHours(startTime) * 60 + SplitMinutes(startTime)
                      + durationMinutes
         IN  Pad2((total \div 60) % 24) \o <<":">> \o Pad2(total % 60)

\* (variant) a malformed string read as the end of the day
_timeToMinutesEndOfDay(timeStr) ==
    IF Len(timeStr) = 0 \/ ~IsHHMM(timeStr) THEN MinutesPerDay
    ELSE SplitHours(timeStr) * 60 + SplitMinutes(timeStr)

_timeToMinutes(timeStr) ==
    IF Len(timeStr) = 0 \/ ~IsHHMM(timeStr) THEN 0
    ELSE SplitHours(timeStr) * 60 + SplitMinutes(timeStr)

\* the keys of a day-selection object, Monday first
DayKeys == <<"monday", "tuesday", "wednesday", "thursday", "friday",
             "saturday", "sunday">>

\* mask & (1 << i) !== 0
BitSet(mask, i) == (mask \div (2 ^ i)) % 2 = 1

\* (variant) a selection that counts the days from Sunday
_getDaysFromMaskSundayFirst(mask) ==
    [day \in {DayKeys[i] : i \in 1..7} |->
        LET i == CHOOSE j \in 0..6 : DayKeys[j + 1] = day
        IN  BitSet(mask, (i + 1) % 7)]

\* _getDaysFromMask: days[day] = (mask & (1 << i)) !== 0
_getDaysFromMask(mask) ==
    [day \in {DayKeys[i] : i \in 1..7} |->
        LET i == CHOOSE j \in 0..6 : DayKeys[j + 1] = day
        IN  BitSet(mask, i)]

\* dayKeys.reduce((sum, day, i) => sum + (days[day] ? (1 << i) : 0), 0),
\* the part of the sum from index i on
RECURSIVE DaymaskFrom(_, _)
DaymaskFrom(days, i) ==
    IF i > 6 THEN 0
    ELSE (IF days[DayKeys[i + 1]] THEN 2 ^ i ELSE 0) + DaymaskFrom(days, i + 1)

_calculateDaymask(days) == DaymaskFrom(days, 0)

_getTodayDayMaskAt(t) ==
    LET today == GetDay(t)
        dayIndex == IF today = 0 THEN 6 ELSE today - 1
    IN  2 ^ dayIndex
_getTodayDayMask == _getTodayDayMaskAt(now)

-----------------------------------------------------------------------------
(* Entities and snapshots                                                  *)

DEFAULT_ENTITIES ==
    [chargeStart |-> "text.saj_charge_start_time_time",
     chargeEnd |-> "text.saj_charge_end_time_time",
     chargeDayMask |-> "number.saj_charge_day_mask_input",
     chargePower |-> "number.saj_battery_charge_power_limit_input",
     chargingSwitch |-> "switch.saj_charging_control",
     chargePowerSensor |-> "sensor.saj_charge_power_percent",
     batteryChargePowerLimit |-> "sensor.saj_battery_charge_power_limit",
     dischargeStart |-> "text.saj_discharge1_start_time_time",
     dischargeEnd |-> "text.saj_discharge1_end_time_time",
     dischargePower |-> "number.saj_discharge1_power_percent_input",
     dischargeDayMask |-> "number.saj_discharge1_day_mask_input",
     dischargingSwitch |-> "switch.saj_discharging_control",
     dischargePowerSensor |-> "sensor.saj_discharge_power_percent"]

Roles == DOMAIN DEFAULT_ENTITIES

\* an entity the host knows nothing else about (irrelevant to every mode)
OtherEntity == "sensor.saj_battery_power"

EntityIds == {DEFAULT_ENTITIES[r] : r \in Roles} \cup {OtherEntity}

\* hass.states[id]: a state object, or undefined (present = FALSE).
\* pw is attributes.pending_write ("true", "false" or "undef"), other stands
\* for every other attribute of the state object.
Ent(state, pw, stamp) ==
    [present |-> TRUE, state |-> state, pw |-> pw,
     last_changed |-> stamp, last_updated |-> stamp, other |-> 0]
Absent ==
    [present |-> FALSE, state |-> EmptyStr, pw |-> "undef",
     last_changed |-> 0, last_updated |-> 0, other |-> 0]

\* this._hass = null
NoHass == [set |-> FALSE, states |-> [id \in EntityIds |-> Absent]]

StartRole(dir) == IF dir = "charge" THEN "chargeStart" ELSE "dischargeStart"
EndRole(dir) == IF dir = "charge" THEN "chargeEnd" ELSE "dischargeEnd"
DayMaskRole(dir) == IF dir = "charge" THEN "chargeDayMask" ELSE "dischargeDayMask"
PowerRole(dir) == IF dir = "charge" THEN "chargePower" ELSE "dischargePower"
SwitchRole(dir) == IF dir = "charge" THEN "chargingSwitch" ELSE "dischargingSwitch"

\* (variant) the entities of both directions whatever the mode
RelevantEntityIdsAnyMode(m, e) ==
    {e.chargeStart, e.chargeEnd, e.chargeDayMask, e.chargePower,
     e.chargingSwitch, e.chargePowerSensor, e.batteryChargePowerLimit,
     e.dischargeStart, e.dischargeEnd, e.dischargeDayMask, e.dischargePower,
     e.dischargingSwitch, e.dischargePowerSensor}

\* the entity ids _shouldUpdate looks at under mode m and entity map e
RelevantEntityIds(m, e) ==
    (IF m # "discharge"
     THEN {e.chargeStart, e.chargeEnd, e.chargeDayMask, e.chargePower,
           e.chargingSwitch, e.chargePowerSensor, e.batteryChargePowerLimit}
     ELSE {})
    \cup
    (IF m # "charge"
     THEN {e.dischargeStart, e.dischargeEnd, e.dischargeDayMask,
           e.dischargePower, e.dischargingSwitch, e.dischargePowerSensor}
     ELSE {})

\* (variant) a comparison of every attribute
EntityChangedAnyAttribute(oldState, newState) == oldState # newState

\* the comparison of one entity's old and new state object.  Two state
\* objects of equal content compare alike whether or not they are the same
\* object, so object identity is not carried.
EntityChanged(oldState, newState) ==
    IF ~oldState.present /\ ~newState.present THEN FALSE
    ELSE IF ~oldState.present \/ ~newState.present THEN TRUE
    ELSE \/ oldState.state # newState.state
         \/ oldState.pw # newState.pw
         \/ oldState.last_changed # newState.last_changed
         \/ oldState.last_updated # newState.last_updated

_shouldUpdateAt(oldHass, newHass, m, e) ==
    IF ~oldHass.set THEN TRUE
    ELSE \E id \in RelevantEntityIds(m, e) :
            EntityChanged(oldHass.states[id], newHass.states[id])

_shouldUpdate(newHass) == _shouldUpdateAt(hass, newHass, mode, entities)

-----------------------------------------------------------------------------
(* Outbound commands                                                       *)

\* hass.states[id]; every id the model uses is in EntityIds
StateOf(h, id) == h.states[id]

\* one call of hass.callService(domain, service, {entity_id, value})
Cmd(domain, service, entityId, value) ==
    [domain |-> domain, service |-> service, entity_id |-> entityId,
     value |-> value]

\* the serviceData of a switch call carries no value
NoValue == << >>

TurnOn(entityId) == Cmd("switch", "turn_on", entityId, NoValue)
TurnOff(entityId) == Cmd("switch", "turn_off", entityId, NoValue)

\* `turn_${value}` for the values a switch takes
TurnService(value) ==
    IF value = ON THEN "turn_on"
    ELSE IF value = OFF THEN "turn_off"
    ELSE "turn_"

\* the commands _setEntityValue issues: none when the entity is unknown;
\* for a switch the service is turn_<value> and the data carries no value
_setEntityValueAt(h, entityId, value, domain) ==
    IF ~h.set \/ entityId = "" THEN << >>
    ELSE IF ~StateOf(h, entityId).present THEN << >>
    ELSE IF domain = "switch"
    THEN <<Cmd(domain, TurnService(value), entityId, NoValue)>>
    ELSE <<Cmd(domain, "set_value", entityId, value)>>

_setEntityValue(entityId, value, domain) ==
    _setEntityValueAt(hass, entityId, value, domain)

-----------------------------------------------------------------------------
(* The rendered tree                                                       *)

SliderId(dir) == IF dir = "charge" THEN "charge-power-slider"
                 ELSE "discharge-power-slider"
EndTimeId(dir) == IF dir = "charge" THEN "charge-end-time"
                  ELSE "discharge-end-time"
TimerId(dir) == IF dir = "charge" THEN "charge-timer" ELSE "discharge-timer"
EnableId(dir) == IF dir = "charge" THEN "charging-enable"
                 ELSE "discharging-enable"
DisableId(dir) == IF dir = "charge" THEN "charging-disable"
                  ELSE "discharging-disable"

ChargeIds == {SliderId("charge"), EndTimeId("charge"), TimerId("charge"),
              EnableId("charge"), DisableId("charge")}
RangeIds == {SliderId(d) : d \in Directions}
TimeIds == {EndTimeId(d) : d \in Directions}
NumberIds == {TimerId(d) : d \in Directions}

\* the section the element with this id is in
ElementDir(id) == IF id \in ChargeIds THEN "charge" ELSE "discharge"

\* the type attribute of the element with this id
ElementType(id) ==
    IF id \in RangeIds THEN "range"
    ELSE IF id \in TimeIds THEN "time"
    ELSE IF id \in NumberIds THEN "number"
    ELSE "button"

\* a section that is not part of the tree
NoSection ==
    [kind |-> "none", missing |-> << >>, slider |-> 0, label |-> 0,
     min |-> 0, max |-> 0, timer |-> EmptyStr, pending |-> FALSE,
     enabled |-> FALSE, sliderDisabled |-> FALSE, enableDisabled |-> FALSE,
     disableDisabled |-> FALSE, status |-> "", endValue |-> EmptyStr,
     listeners |-> FALSE, endEntity |-> ""]

\* raf: a requestAnimationFrame callback of _renderCard is pending
EmptyDom ==
    [html |-> FALSE, raf |-> FALSE, charge |-> NoSection,
     discharge |-> NoSection]

\* the value a range input takes for the value attribute v
SliderSanitize(min, max, v) ==
    IF max < min THEN min
    ELSE IF v < min THEN min
    ELSE IF v > max THEN max
    ELSE v

\* the position after the digits of s that start at position i
RECURSIVE DigitRun(_, _)
DigitRun(s, i) ==
    IF i > Len(s) \/ ~IsDigit(s[i]) THEN i ELSE DigitRun(s, i + 1)

\* s is a valid floating-point number of HTML: -? digits (. digits)? or
\* -? . digits, then an optional exponent (e|E) (-|+)? digits
IsValidNumber(s) ==
    LET a == IF Len(s) > 0 /\ s[1] = "-" THEN 2 ELSE 1
        b == DigitRun(s, a)
        dot == b <= Len(s) /\ s[b] = "."
        c == IF dot THEN DigitRun(s, b + 1) ELSE b
        exp == c <= Len(s) /\ s[c] \in {"e", "E"}
        d == IF exp /\ c + 1 <= Len(s) /\ s[c + 1] \in {"-", "+"}
             THEN c + 2 ELSE c + 1
        f == IF exp THEN DigitRun(s, d) ELSE c
    IN  /\ IF dot THEN c > b + 1 ELSE b > a
        /\ exp => f > d
        /\ f = Len(s) + 1

\* the value an <input type="number"> takes for the text s
NumberSanitize(s) == IF IsValidNumber(s) THEN s ELSE EmptyStr

\* _getTimerValue(type, 30): the stored string, or the default when none
\* (a missing key and an empty string are both falsy)
_getTimerValue(store, dir) ==
    IF Len(store[dir]) = 0 THEN Pad2(DefaultTimer) ELSE store[dir]

\* (variant) a test that does not look at the switch, the last of the roles
AnyMissingButSwitch(h, e, roles) ==
    \E i \in 1..(Len(roles) - 1) : ~StateOf(h, e[roles[i]]).present

\* !start || !end || !mask || !power || !sw
AnyMissing(h, e, roles) ==
    \E i \in 1..Len(roles) : ~StateOf(h, e[roles[i]]).present

\* [..].filter(Boolean) of the ids of the absent entities, in order
MissingOf(h, e, roles) ==
    SelectSeq([i \in 1..Len(roles) |-> e[roles[i]]],
              LAMBDA id : ~StateOf(h, id).present)

\* parseInt(x) || 0
ParseIntOr0(s) == LET n == ParseIntNoRadix(s) IN IF n = NaN THEN 0 ELSE n

\* the status line of a section
StatusOf(sw) ==
    IF sw.pw = "true" THEN "pending"
    ELSE IF sw.state = ON THEN "active" ELSE "inactive"

\* (variant) a Disable button that stays usable while a write is pending
ControlsSectionDisableWhilePending(percent, sw, end, max10, store, dir) ==
    LET kw == _percentToSliderKwAt(percent, max10)
        minKw == _percentToSliderKwAt(10, max10)
        maxKw == _percentToSliderKwAt(100, max10)
    IN  [kind |-> "controls", missing |-> << >>,
         slider |-> SliderSanitize(minKw, maxKw, kw), label |-> kw,
         min |-> minKw, max |-> maxKw,
         timer |-> NumberSanitize(_getTimerValue(store, dir)),
         pending |-> (sw.pw = "true"),
         enabled |-> (sw.state = ON),
         sliderDisabled |-> (sw.pw = "true"),
         enableDisabled |-> (sw.pw = "true"),
         disableDisabled |-> (sw.state # ON),
         status |-> StatusOf(sw),
         endValue |-> IF IsHHMM(end.state) THEN end.state
                      ELSE <<"0", "0", ":", "0", "0">>,
         listeners |-> FALSE, endEntity |-> ""]

\* a section as _renderCard writes it: no listener yet (endEntity is the
\* entity id the end-time listener closes over once it is attached)
ControlsSection(percent, sw, end, max10, store, dir) ==
    LET kw == _percentToSliderKwAt(percent, max10)
        minKw == _percentToSliderKwAt(10, max10)
        maxKw == _percentToSliderKwAt(100, max10)
    IN  [kind |-> "controls", missing |-> << >>,
         slider |-> SliderSanitize(minKw, maxKw, kw), label |-> kw,
         min |-> minKw, max |-> maxKw,
         timer |-> NumberSanitize(_getTimerValue(store, dir)),
         pending |-> (sw.pw = "true"),
         enabled |-> (sw.state = ON),
         sliderDisabled |-> (sw.pw = "true"),
         enableDisabled |-> (sw.pw = "true"),
         disableDisabled |-> (sw.pw = "true" \/ sw.state # ON),
         status |-> StatusOf(sw),
         endValue |-> IF IsHHMM(end.state) THEN end.state
                      ELSE <<"0", "0", ":", "0", "0">>,
         listeners |-> FALSE, endEntity |-> ""]

ChargeRoles ==
    <<"chargeStart", "chargeEnd", "chargeDayMask", "chargePower",
      "chargingSwitch">>
DischargeRoles ==
    <<"dischargeStart", "dischargeEnd", "dischargeDayMask", "dischargePower",
      "dischargingSwitch">>
SectionRoles(dir) == IF dir = "charge" THEN ChargeRoles ELSE DischargeRoles

\* (variant) the charge power read as whole percent
_renderChargingSectionWholePercent(h, e, max10, store) ==
    LET power == StateOf(h, e.chargePower)
        chargePower == ParseIntOr0(power.state)
    IN  IF AnyMissing(h, e, ChargeRoles)
        THEN [NoSection EXCEPT !.kind = "error",
                               !.missing = MissingOf(h, e, ChargeRoles)]
        ELSE ControlsSection(chargePower, StateOf(h, e.chargingSwitch),
                             StateOf(h, e.chargeEnd), max10, store, "charge")

_renderChargingSection(h, e, max10, store) ==
    LET power == StateOf(h, e.chargePower)
        \* Math.round((parseInt(power.state) || 0) / 10)
        chargePower == (ParseIntOr0(power.state) + 5) \div 10
    IN  IF AnyMissing(h, e, ChargeRoles)
        THEN [NoSection EXCEPT !.kind = "error",
                               !.missing = MissingOf(h, e, ChargeRoles)]
        ELSE ControlsSection(chargePower, StateOf(h, e.chargingSwitch),
                             StateOf(h, e.chargeEnd), max10, store, "charge")

_renderDischargingSection(h, e, max10, store) ==
    LET power == StateOf(h, e.dischargePower)
        dischargePower == ParseIntOr0(power.state)
    IN  IF AnyMissing(h, e, DischargeRoles)
        THEN [NoSection EXCEPT !.kind = "error",
                               !.missing = MissingOf(h, e, DischargeRoles)]
        ELSE ControlsSection(dischargePower, StateOf(h, e.dischargingSwitch),
                             StateOf(h, e.dischargeEnd), max10, store,
                             "discharge")

\* the tree _renderCard writes to shadowRoot.innerHTML, with the callback
\* it hands to requestAnimationFrame pending
RenderTree(h, m, e, max10, store) ==
    [html |-> TRUE,
     raf |-> TRUE,
     charge |-> IF m # "discharge"
                THEN _renderChargingSection(h, e, max10, store)
                ELSE NoSection,
     discharge |-> IF m # "charge"
                   THEN _renderDischargingSection(h, e, max10, store)
                   ELSE NoSection]

\* the element exists in tree d and can take the focus (is not disabled)
Focusable(d, id) ==
    LET sec == d[ElementDir(id)]
    IN  /\ sec.kind = "controls"
        /\ CASE ElementType(id) = "number" -> TRUE
             [] id = DisableId(ElementDir(id)) -> ~sec.pending /\ sec.enabled
             [] OTHER -> ~sec.pending

_isUserInteractingAt(f) ==
    IF f = "none" THEN FALSE
    ELSE ElementType(f) \in {"time", "range"}

_isUserInteracting == _isUserInteractingAt(focus)

\* (variant) _renderCard without the final look at the focus
RenderAllowedUnguarded(h, f) == h.set

\* _renderCard returns early without a snapshot or under the interaction guard
RenderAllowed(h, f) == h.set /\ ~_isUserInteractingAt(f)

\* the tree after _renderCard ran with snapshot h, mode m, entity map e
_renderCard(h, m, e, max10, store) ==
    IF RenderAllowed(h, focus) THEN RenderTree(h, m, e, max10, store) ELSE dom

\* _addChargingEventListeners / _addDischargingEventListeners on a section:
\* elements that carry no listener get theirs, the end-time listener closes
\* over the entity id given, the duration field takes the stored value
AttachSection(sec, endEntity, store, dir) ==
    IF sec.kind # "controls" \/ sec.listeners THEN sec
    ELSE [sec EXCEPT !.listeners = TRUE,
                     !.endEntity = endEntity,
                     !.timer = IF Len(store[dir]) > 0
                               THEN NumberSanitize(store[dir]) ELSE @]

\* _addEventListeners on tree d under mode m and entity map e
_addEventListeners(d, m, e, store) ==
    [d EXCEPT !.charge = IF m # "discharge"
                         THEN AttachSection(@, e.chargeEnd, store, "charge")
                         ELSE @,
              !.discharge = IF m # "charge"
                            THEN AttachSection(@, e.dischargeEnd, store,
                                               "discharge")
                            ELSE @]

\* the tree without what the listeners' attachment adds to it
Markup(d) ==
    [d EXCEPT !.raf = FALSE,
              !.charge.listeners = FALSE, !.charge.endEntity = "",
              !.discharge.listeners = FALSE, !.discharge.endEntity = ""]

\* the focus after _renderCard: restored onto the element of the same id
FocusAfter(newDom, rendered) ==
    IF ~rendered \/ focus = "none" THEN focus
    ELSE IF Focusable(newDom, focus) THEN focus ELSE "none"

-----------------------------------------------------------------------------
(* The snapshots the host pushes                                           *)

T0000 == <<"0", "0", ":", "0", "0">>
T0830 == <<"0", "8", ":", "3", "0">>
T2351 == <<"2", "3", ":", "5", "1">>
T2355 == <<"2", "3", ":", "5", "5">>
T2400 == <<"2", "4", ":", "0", "0">>

BaseStates ==
    [id \in EntityIds |->
        CASE id = DEFAULT_ENTITIES.chargeStart -> Ent(T0000, "false", 0)
          [] id = DEFAULT_ENTITIES.chargeEnd -> Ent(T0000, "false", 0)
          [] id = DEFAULT_ENTITIES.chargeDayMask -> Ent(<<"1", "2", "7">>, "false", 0)
          [] id = DEFAULT_ENTITIES.chargePower -> Ent(<<"5", "0", "0">>, "false", 0)
          [] id = DEFAULT_ENTITIES.chargingSwitch -> Ent(OFF, "false", 0)
          [] id = DEFAULT_ENTITIES.batteryChargePowerLimit -> Ent(<<"5", "0">>, "undef", 0)
          [] id = DEFAULT_ENTITIES.dischargeStart -> Ent(T0000, "false", 0)
          [] id = DEFAULT_ENTITIES.dischargeEnd -> Ent(T0000, "false", 0)
          [] id = DEFAULT_ENTITIES.dischargeDayMask -> Ent(<<"1", "2", "7">>, "false", 0)
          [] id = DEFAULT_ENTITIES.dischargePower -> Ent(<<"5", "0">>, "false", 0)
          [] id = DEFAULT_ENTITIES.dischargingSwitch -> Ent(OFF, "false", 0)
          [] OTHER -> Ent(<<"0">>, "undef", 0)]

\* a snapshot in which direction dir has its switch at sw and end time at end
WithSchedule(states, dir, sw, end) ==
    [states EXCEPT ![DEFAULT_ENTITIES[SwitchRole(dir)]].state = sw,
                   ![DEFAULT_ENTITIES[EndRole(dir)]].state = end]

Hass(states) == [set |-> TRUE, states |-> states]

\* end-time values the host reports for a running schedule: valid ones, the
\* empty string and a malformed one
EndStates == {T0830, T2351, EmptyStr, T2400}

\* schedules running or not, with a live sensor reading
ScheduleSnapshots ==
    {Hass(BaseStates)}
    \cup {Hass(WithSchedule(BaseStates, "charge", ON, e)) : e \in EndStates}
    \cup {Hass(WithSchedule(WithSchedule(BaseStates, "charge", ON, T0830),
                            "discharge", ON, T2400))}
    \cup {Hass([BaseStates EXCEPT ![DEFAULT_ENTITIES.chargePowerSensor].last_updated = 1])}

\* a write pending on the charging switch, and an entity gone
PanelSnapshots ==
    {Hass(BaseStates)}
    \cup {Hass([BaseStates EXCEPT ![DEFAULT_ENTITIES.chargingSwitch].pw = "true"])}
    \cup {Hass([BaseStates EXCEPT ![DEFAULT_ENTITIES.chargeStart] = Absent])}

HostSnapshots == ScheduleSnapshots \cup PanelSnapshots

NoSchedule ==
    [set |-> FALSE, dir |-> "", at |-> 0, duration |-> 0, end |-> EmptyStr]

\* the host showing the schedule an Enable button last wrote, running
ReflectedSnapshots ==
    IF sched.set
    THEN {Hass(WithSchedule(BaseStates, sched.dir, ON, sched.end))}
    ELSE {}

-----------------------------------------------------------------------------
(* The state after construction                                            *)

\* Thursday 1970-01-01 23:50 and Sunday 1970-01-04 08:00
StartTimes == {(23 * 60 + 50) * MsPerMinute, ((3 * 24 + 8) * 60) * MsPerMinute}

\* what a handler did: the commands it issued, whether it had a reason to
\* render (trigger), replaced the tree (rendered), ran the expiry check
Did(op, dir, cmds, trigger, rendered, checked) ==
    [op |-> op, dir |-> dir, cmds |-> cmds, trigger |-> trigger,
     rendered |-> rendered, checked |-> checked, shouldUpdate |-> FALSE,
     threw |-> FALSE]

Idle(op) == Did(op, "", << >>, "none", FALSE, FALSE)

\* a handler that only issued commands
Issued(op, dir, cmds) == Did(op, dir, cmds, "none", FALSE, FALSE)

Init ==
    /\ mode = "both"
    /\ inverterMaxOutput = DefaultMaxOutput
    /\ entities = DEFAULT_ENTITIES
    /\ hass = NoHass
    /\ lastForceUpdate = 0
    /\ lastTimerCheck = 0
    /\ now \in StartTimes
    /\ dom = EmptyDom
    /\ focus = "none"
    /\ timerStore = [d \in Directions |-> EmptyStr]
    /\ pendingOn = [d \in Directions |-> << >>]
    /\ ticks = 0
    /\ sched = NoSchedule
    /\ ev = Idle("constructor")

\* the element constructed on Thursday at 23:50
InitLateEvening == Init /\ now = (23 * 60 + 50) * MsPerMinute

-----------------------------------------------------------------------------
(* The environment: clock and focus                                        *)

TickSteps == {ForceUpdateInterval, ForceUpdateInterval + 1}

Tick(d) ==
    /\ ticks < MaxTicks
    /\ now' = now + d
    /\ ticks' = ticks + 1
    /\ ev' = Idle("idle")
    /\ UNCHANGED <<mode, inverterMaxOutput, entities, hass, lastForceUpdate,
                   lastTimerCheck, dom, focus, timerStore, pendingOn, sched>>

\* the elements the user moves the focus to: one of each type
FocusTargets == {SliderId("charge"), EndTimeId("discharge")}

UserFocus(id) ==
    /\ Focusable(dom, id)
    /\ focus # id
    /\ focus' = id
    /\ ev' = Idle("idle")
    /\ UNCHANGED <<mode, inverterMaxOutput, entities, hass, lastForceUpdate,
                   lastTimerCheck, now, dom, timerStore, pendingOn, ticks,
                   sched>>

UserBlur ==
    /\ focus # "none"
    /\ focus' = "none"
    /\ ev' = Idle("idle")
    /\ UNCHANGED <<mode, inverterMaxOutput, entities, hass, lastForceUpdate,
                   lastTimerCheck, now, dom, timerStore, pendingOn, ticks,
                   sched>>

-----------------------------------------------------------------------------
(* set hass(hass)                                                          *)

\* (variant) expiry only once the end minute is over
ExpiryOfStrict(h, e, dir, t) ==
    LET sw == StateOf(h, e[SwitchRole(dir)])
        end == StateOf(h, e[EndRole(dir)])
    IN  IF /\ sw.present /\ sw.state = ON
           /\ end.present /\ Len(end.state) > 0
           /\ _timeToMinutes(_getCurrentTimeAt(t)) > _timeToMinutes(end.state)
        THEN <<TurnOff(e[SwitchRole(dir)])>>
        ELSE << >>

\* the switch-off _checkTimerExpiration issues for one direction
ExpiryOf(h, e, dir, t) ==
    LET sw == StateOf(h, e[SwitchRole(dir)])
        end == StateOf(h, e[EndRole(dir)])
    IN  IF /\ sw.present /\ sw.state = ON
           /\ end.present /\ Len(end.state) > 0
           /\ _timeToMinutes(_getCurrentTimeAt(t)) >= _timeToMinutes(end.state)
        THEN <<TurnOff(e[SwitchRole(dir)])>>
        ELSE << >>

\* the commands of _checkTimerExpiration on snapshot h at time t
_checkTimerExpirationAt(h, m, e, t) ==
    IF ~h.set THEN << >>
    ELSE (IF m # "discharge" THEN ExpiryOf(h, e, "charge", t) ELSE << >>)
         \o (IF m # "charge" THEN ExpiryOf(h, e, "discharge", t) ELSE << >>)

\* (variant) due from the 60000th millisecond on
TimerCheckDueInclusive(last, t) == last = 0 \/ t - last >= TimerCheckInterval

\* the expiry check is due
TimerCheckDue(last, t) == last = 0 \/ t - last > TimerCheckInterval

\* (variant) a failsafe that acts on the first push only
ForceUpdateDueOnce(last, t) == last = 0

\* (variant) a failsafe at the cadence of the expiry check
ForceUpdateDueLate(last, t) == last = 0 \/ t - last > TimerCheckInterval

\* the failsafe forced refresh is due
ForceUpdateDue(last, t) == last = 0 \/ t - last > ForceUpdateInterval

SetHass(h) ==
    LET shouldUpdate == _shouldUpdate(h)
        userInteracting == _isUserInteracting
        doCheck == TimerCheckDue(lastTimerCheck, now)
        doForce == ForceUpdateDue(lastForceUpdate, now)
        callRender == IF doForce THEN ~userInteracting
                      ELSE (shouldUpdate \/ ~dom.html) /\ ~userInteracting
        rendered == callRender /\ RenderAllowed(h, focus)
        newDom == IF callRender
                  THEN _renderCard(h, mode, entities, inverterMaxOutput,
                                   timerStore)
                  ELSE dom
    IN  /\ hass' = h
        /\ lastTimerCheck' = IF doCheck THEN now ELSE lastTimerCheck
        /\ lastForceUpdate' = IF doForce THEN now ELSE lastForceUpdate
        /\ dom' = newDom
        /\ focus' = FocusAfter(newDom, rendered)
        /\ ev' = [Did("hass", "",
                      IF doCheck
                      THEN _checkTimerExpirationAt(h, mode, entities, now)
                      ELSE << >>,
                      IF doForce THEN "force"
                      ELSE IF shouldUpdate \/ ~dom.html THEN "update"
                      ELSE "none",
                      rendered, doCheck)
                  EXCEPT !.shouldUpdate = shouldUpdate]
        /\ UNCHANGED <<mode, inverterMaxOutput, entities, now, timerStore,
                       pendingOn, ticks, sched>>

\* _shouldUpdate(newHass) called on its own: it changes nothing
ShouldUpdateCall(h) ==
    /\ ev' = [op |-> "shouldUpdate", newHass |-> h,
              shouldUpdate |-> _shouldUpdate(h)]
    /\ UNCHANGED <<mode, inverterMaxOutput, entities, hass, lastForceUpdate,
                   lastTimerCheck, now, dom, focus, timerStore, pendingOn,
                   ticks, sched>>

\* the setter called without a snapshot returns at once
SetHassNull ==
    /\ ev' = Idle("idle")
    /\ UNCHANGED <<mode, inverterMaxOutput, entities, hass, lastForceUpdate,
                   lastTimerCheck, now, dom, focus, timerStore, pendingOn,
                   ticks, sched>>

-----------------------------------------------------------------------------
(* setConfig(config) and connectedCallback()                               *)

\* a value of a configuration key: undefined (key absent), a number (v in
\* tenths), NaN, or a non-empty string that reads as the number v ("3.0" is
\* Str(30))
Undefined == [t |-> "undef", v |-> 0]
Num(v) == [t |-> "num", v |-> v]
NaNValue == [t |-> "nan", v |-> 0]
Str(v) == [t |-> "str", v |-> v]

\* a Lovelace configuration: mode is a string ("" when absent or empty,
\* modeGiven telling which), maxOutput and max_discharge_kw are values in
\* tenths of a kW, entities the overrides by role
Config(m, maxOutput, overrides) ==
    [isNull |-> FALSE, mode |-> m, modeGiven |-> (m # ""),
     maxOutput |-> maxOutput, max_discharge_kw |-> Undefined,
     entities |-> overrides]

NoOverrides == [r \in {} |-> ""]

NullConfig == [Config("", Undefined, NoOverrides) EXCEPT !.isNull = TRUE]

ValidModes == {"charge", "discharge", "both"}

\* config.mode || 'both'
ModeOf(c) == IF c.mode = "" THEN "both" ELSE c.mode

\* config.maxOutput || 5.0 (undefined, NaN and 0 are falsy).  A string is
\* kept as it is; what is stored here is the number it reads as, which is
\* what the conversions compute with.
MaxOutputOf(c) ==
    IF \/ c.maxOutput.t \in {"undef", "nan"}
       \/ c.maxOutput.t = "num" /\ c.maxOutput.v = 0
    THEN DefaultMaxOutput
    ELSE c.maxOutput.v

\* typeof this._inverterMaxOutput after the assignment
MaxOutputTypeOf(c) ==
    IF c.maxOutput.t = "str" THEN "string" ELSE "number"

\* _deepMerge of a flat map of overrides (strings by key) onto a flat
\* target: every key of either map, the source's value where it has one
_deepMerge(target, source) ==
    [r \in DOMAIN target \cup DOMAIN source |->
        IF r \in DOMAIN source THEN source[r] ELSE target[r]]

\* (variant) the merge starts from the map of the previous configuration
MergeBaseCurrent(current) == current

\* the map the overrides are merged onto: a fresh copy of the defaults
MergeBase(current) == DEFAULT_ENTITIES

\* (variant) a validation that accepts every mode
ConfigErrorAnyMode(c) ==
    IF c.isNull THEN "config"
    ELSE IF MaxOutputTypeOf(c) # "number" \/ MaxOutputOf(c) <= 0
         THEN "maxOutput"
    ELSE ""

\* where setConfig throws: "config", "mode", "maxOutput", or "" when it does not
ConfigError(c) ==
    IF c.isNull THEN "config"
    ELSE IF ModeOf(c) \notin ValidModes THEN "mode"
    ELSE IF MaxOutputTypeOf(c) # "number" \/ MaxOutputOf(c) <= 0
         THEN "maxOutput"
    ELSE ""

SetConfig(c) ==
    LET err == ConfigError(c)
        newMode == IF err = "config" THEN mode ELSE ModeOf(c)
        newMax == IF err \in {"config", "mode"} THEN inverterMaxOutput
                  ELSE MaxOutputOf(c)
        newEntities == IF err # "" THEN entities
                       ELSE _deepMerge(MergeBase(entities), c.entities)
        callRender == err = "" /\ hass.set
        rendered == callRender /\ RenderAllowed(hass, focus)
        newDom == IF callRender
                  THEN _renderCard(hass, newMode, newEntities, newMax,
                                   timerStore)
                  ELSE dom
    IN  /\ mode' = newMode
        /\ inverterMaxOutput' = newMax
        /\ entities' = newEntities
        /\ dom' = newDom
        /\ focus' = FocusAfter(newDom, rendered)
        /\ ev' = [op |-> "config", dir |-> "", cmds |-> << >>,
                  trigger |-> IF callRender THEN "config" ELSE "none",
                  rendered |-> rendered, checked |-> FALSE,
                  shouldUpdate |-> FALSE, threw |-> (err # ""),
                  config |-> c, before |-> entities]
        /\ UNCHANGED <<hass, lastForceUpdate, lastTimerCheck, now, timerStore,
                       pendingOn, ticks, sched>>

ConnectedCallback ==
    LET callRender == hass.set /\ ~dom.html
        rendered == callRender /\ RenderAllowed(hass, focus)
        newDom == IF callRender
                  THEN _renderCard(hass, mode, entities, inverterMaxOutput,
                                   timerStore)
                  ELSE dom
    IN  /\ dom' = newDom
        /\ focus' = FocusAfter(newDom, rendered)
        /\ ev' = IF callRender
                 THEN Did("connected", "", << >>, "connected", rendered, FALSE)
                 ELSE Idle("idle")
        /\ UNCHANGED <<mode, inverterMaxOutput, entities, hass,
                       lastForceUpdate, lastTimerCheck, now, timerStore,
                       pendingOn, ticks, sched>>

\* the browser runs the requestAnimationFrame callbacks that are pending
AnimationFrame ==
    /\ dom.raf
    /\ dom' = [_addEventListeners(dom, mode, entities, timerStore)
                  EXCEPT !.raf = FALSE]
    /\ ev' = Idle("frame")
    /\ UNCHANGED <<mode, inverterMaxOutput, entities, hass, lastForceUpdate,
                   lastTimerCheck, now, focus, timerStore, pendingOn, ticks,
                   sched>>

-----------------------------------------------------------------------------
(* The listeners of a section                                              *)

\* an event on an element that carries no listener
Unheard == Idle("unheard")

\* the elements of the section of direction dir carry their listeners
Heard(dir) == dom[dir].listeners

\* (variant) a new schedule for every day of the week
ScheduleWritesEveryDay(dir, startTime, endTime, dayMask, power) ==
    _setEntityValue(entities[StartRole(dir)], startTime, "text")
    \o _setEntityValue(entities[EndRole(dir)], endTime, "text")
    \o _setEntityValue(entities[DayMaskRole(dir)], 127, "number")
    \o _setEntityValue(entities[PowerRole(dir)], power, "number")

\* the four writes of a new schedule, in the order the listener issues them
ScheduleWrites(dir, startTime, endTime, dayMask, power) ==
    _setEntityValue(entities[StartRole(dir)], startTime, "text")
    \o _setEntityValue(entities[EndRole(dir)], endTime, "text")
    \o _setEntityValue(entities[DayMaskRole(dir)], dayMask, "number")
    \o _setEntityValue(entities[PowerRole(dir)], power, "number")

\* the click listener of an Enable button; power is the value the listener
\* writes to the power entity of a new schedule
EnableClick(dir, power) ==
    LET entityId == entities[SwitchRole(dir)]
        sw == StateOf(hass, entityId)
        duration == ParseInt(dom[dir].timer)
        startTime == _getCurrentTime
        endTime == _calculateEndTime(startTime, duration)
        extend == sw.present /\ sw.state = ON
        writes == ScheduleWrites(dir, startTime, endTime, _getTodayDayMask,
                                 power)
        heard == Heard(dir)
    IN  /\ dom[dir].kind = "controls"
        /\ ~dom[dir].pending
        /\ ~heard \/ extend \/ Len(pendingOn[dir]) < MaxPending
        /\ ev' = IF ~heard THEN Unheard
                 ELSE IF extend
                 THEN Issued("extend", dir,
                             _setEntityValue(entities[EndRole(dir)], endTime,
                                             "text"))
                 ELSE Issued("enable", dir, writes)
        /\ pendingOn' = IF ~heard \/ extend THEN pendingOn
                        ELSE [pendingOn EXCEPT ![dir] = Append(@, entityId)]
        /\ sched' = IF \/ ~heard
                       \/ extend
                       \/ ~StateOf(hass, entities[EndRole(dir)]).present
                    THEN sched
                    ELSE [set |-> TRUE, dir |-> dir, at |-> now,
                          duration |-> duration, end |-> endTime]
        /\ UNCHANGED <<mode, inverterMaxOutput, entities, hass,
                       lastForceUpdate, lastTimerCheck, now, dom, focus,
                       timerStore, ticks>>

ChargingEnableClick ==
    EnableClick("charge", _sliderKwToPercent(dom.charge.slider))

DischargingEnableClick ==
    EnableClick("discharge", _sliderKwToPercent(dom.discharge.slider))

\* the callback of setTimeout(..., 100) of a new schedule
FireSwitchOn(dir) ==
    /\ Len(pendingOn[dir]) > 0
    /\ pendingOn' = [pendingOn EXCEPT ![dir] = Tail(@)]
    /\ ev' = Issued("timeout", dir, <<TurnOn(Head(pendingOn[dir]))>>)
    /\ UNCHANGED <<mode, inverterMaxOutput, entities, hass, lastForceUpdate,
                   lastTimerCheck, now, dom, focus, timerStore, ticks, sched>>

\* (variant) a Disable button that goes through _setEntityValue
DisableClickViaRoutine(dir) ==
    /\ dom[dir].kind = "controls"
    /\ ~dom[dir].pending /\ dom[dir].enabled
    /\ ev' = IF ~Heard(dir) THEN Unheard
             ELSE Issued("disable", dir,
                         _setEntityValue(entities[SwitchRole(dir)], OFF,
                                         "switch"))
    /\ UNCHANGED <<mode, inverterMaxOutput, entities, hass, lastForceUpdate,
                   lastTimerCheck, now, dom, focus, timerStore, pendingOn,
                   ticks, sched>>

\* the click listener of a Disable button
DisableClick(dir) ==
    /\ dom[dir].kind = "controls"
    /\ ~dom[dir].pending /\ dom[dir].enabled
    /\ ev' = IF ~Heard(dir) THEN Unheard
             ELSE Issued("disable", dir,
                         <<TurnOff(entities[SwitchRole(dir)])>>)
    /\ UNCHANGED <<mode, inverterMaxOutput, entities, hass, lastForceUpdate,
                   lastTimerCheck, now, dom, focus, timerStore, pendingOn,
                   ticks, sched>>

\* the positions the user drags a slider to
SliderChoices(sec) ==
    IF sec.max < sec.min THEN {sec.min}
    ELSE {sec.min, (sec.min + sec.max) \div 2, sec.max}

\* (variant) a slider that writes while it is dragged
SliderInputWriting(dir, kw) ==
    /\ dom[dir].kind = "controls"
    /\ ~dom[dir].pending
    /\ kw \in SliderChoices(dom[dir])
    /\ kw # dom[dir].slider
    /\ dom' = [dom EXCEPT ![dir].slider = kw,
                          ![dir].label = IF Heard(dir) THEN kw ELSE @]
    /\ ev' = IF ~Heard(dir) THEN Unheard
             ELSE Issued("slider-input", dir,
                         _setEntityValue(entities[PowerRole(dir)],
                                         _sliderKwToPercent(kw), "number"))
    /\ UNCHANGED <<mode, inverterMaxOutput, entities, hass, lastForceUpdate,
                   lastTimerCheck, now, focus, timerStore, pendingOn, ticks,
                   sched>>

\* the user drags a power slider to kw: the input listener writes the label
SliderInput(dir, kw) ==
    /\ dom[dir].kind = "controls"
    /\ ~dom[dir].pending
    /\ kw \in SliderChoices(dom[dir])
    /\ kw # dom[dir].slider
    /\ dom' = [dom EXCEPT ![dir].slider = kw,
                          ![dir].label = IF Heard(dir) THEN kw ELSE @]
    /\ ev' = IF ~Heard(dir) THEN Unheard
             ELSE Issued("slider-input", dir, << >>)
    /\ UNCHANGED <<mode, inverterMaxOutput, entities, hass, lastForceUpdate,
                   lastTimerCheck, now, focus, timerStore, pendingOn, ticks,
                   sched>>

\* the change listener of a power slider; value is what it writes
SliderChange(dir, value) ==
    /\ dom[dir].kind = "controls"
    /\ ~dom[dir].pending
    /\ ev' = IF ~Heard(dir) THEN Unheard
             ELSE Issued("slider-change", dir,
                         _setEntityValue(entities[PowerRole(dir)], value,
                                         "number"))
    /\ UNCHANGED <<mode, inverterMaxOutput, entities, hass, lastForceUpdate,
                   lastTimerCheck, now, dom, focus, timerStore, pendingOn,
                   ticks, sched>>

ChargeSliderChange ==
    SliderChange("charge", _sliderKwToPercent(dom.charge.slider) * 10)

DischargeSliderChange ==
    SliderChange("discharge", _sliderKwToPercent(dom.discharge.slider))

\* a change event of a duration field whose value is value (the browser
\* keeps the text typed if it is a number and the empty string if not); the
\* listener stores the value
TimerChange(dir, value) ==
    /\ dom[dir].kind = "controls"
    /\ timerStore' = IF Heard(dir)
                     THEN [timerStore EXCEPT ![dir] = value]
                     ELSE timerStore
    /\ dom' = [dom EXCEPT ![dir].timer = value]
    /\ ev' = IF ~Heard(dir) THEN Unheard
             ELSE Issued("timer-change", dir, << >>)
    /\ UNCHANGED <<mode, inverterMaxOutput, entities, hass, lastForceUpdate,
                   lastTimerCheck, now, focus, pendingOn, ticks, sched>>

\* the value an <input type="time"> takes for the text s: a valid time
\* string (HH:MM, HH:MM:SS or HH:MM:SS with one to three decimals) as it
\* is, the empty string for every other text
TimeSanitize(s) ==
    LET clock == /\ Len(s) >= 5
                 /\ IsDigit(s[1]) /\ IsDigit(s[2])
                 /\ 10 * DigitVal(s[1]) + DigitVal(s[2]) <= 23
                 /\ s[3] = ":"
                 /\ s[4] \in Digits05 /\ IsDigit(s[5])
        seconds == /\ Len(s) >= 8
                   /\ s[6] = ":"
                   /\ s[7] \in Digits05 /\ IsDigit(s[8])
        decimals == /\ Len(s) \in 10..12
                    /\ s[9] = "."
                    /\ \A i \in 10..Len(s) : IsDigit(s[i])
    IN  IF clock /\ (Len(s) = 5 \/ (seconds /\ (Len(s) = 8 \/ decimals)))
        THEN s ELSE EmptyStr

\* the user enters text in an end-time field and a change event follows;
\* the field, and so the listener, holds the sanitized value
EndTimeChange(dir, text) ==
    LET value == TimeSanitize(text)
        endEntity == dom[dir].endEntity
        prevState == StateOf(hass, endEntity)
        valid == IsHHMM(value)
        heard == Heard(dir)
    IN  /\ dom[dir].kind = "controls"
        /\ ~dom[dir].pending
        /\ dom' = [dom EXCEPT ![dir].endValue =
                      IF ~heard \/ valid THEN value
                      ELSE IF prevState.present /\ IsHHMM(prevState.state)
                           THEN prevState.state
                           ELSE T0000]
        /\ ev' = IF ~heard THEN Unheard
                 ELSE Issued("end-change", dir,
                             IF valid
                             THEN _setEntityValue(endEntity, value, "text")
                             ELSE << >>) @@ [input |-> value]
        /\ UNCHANGED <<mode, inverterMaxOutput, entities, hass,
                       lastForceUpdate, lastTimerCheck, now, focus, timerStore,
                       pendingOn, ticks, sched>>

\* the handlers whose commands go out through _setEntityValue, which
\* attaches a catch handler to the promise of callService; the expiry
\* check, the Disable listener and the deferred switch-on call callService
\* themselves and drop the promise
RoutineOps == {"enable", "extend", "slider-change", "end-change"}
DirectOps == {"hass", "disable", "timeout"}

\* the host rejects the i-th command the last handler issued: the catch
\* handler, where there is one, logs and dispatches 'hass-notification'
CommandFails(i) ==
    /\ ev.op \in RoutineOps \cup DirectOps
    /\ i \in 1..Len(ev.cmds)
    /\ ev' = [op |-> "failed", dir |-> ev.dir, cmds |-> << >>,
              failed |-> ev.cmds[i],
              logged |-> (ev.op \in RoutineOps),
              notifications |-> IF ev.op \in RoutineOps THEN 1 ELSE 0]
    /\ UNCHANGED <<mode, inverterMaxOutput, entities, hass, lastForceUpdate,
                   lastTimerCheck, now, dom, focus, timerStore, pendingOn,
                   ticks, sched>>

-----------------------------------------------------------------------------
(* Specifications                                                          *)

\* the configurations Lovelace hands to setConfig
Configs ==
    {Config("", Undefined, NoOverrides),
     Config("charge", Undefined, NoOverrides),
     Config("discharge", Num(30), NoOverrides),
     Config("invalid", Undefined, NoOverrides),
     NullConfig}

\* what the user enters in a duration field and in an end-time field
TimerInputs == {<<"1", "4", "4", "0">>, EmptyStr}
EndTimeInputs == {T2355, EmptyStr}

\* the user's actions on the panel
UserCommand ==
    \/ ChargingEnableClick
    \/ DischargingEnableClick
    \/ \E dir \in Directions : DisableClick(dir)
    \/ \E dir \in Directions : \E kw \in SliderChoices(dom[dir]) :
            SliderInput(dir, kw)
    \/ ChargeSliderChange
    \/ DischargeSliderChange
    \/ \E dir \in Directions : \E v \in TimerInputs : TimerChange(dir, v)
    \/ \E dir \in Directions : \E v \in EndTimeInputs : EndTimeChange(dir, v)

\* the host's and the browser's calls into the element
HostCall(snapshots, configs) ==
    \/ \E h \in snapshots : SetHass(h)
    \/ SetHassNull
    \/ \E c \in configs : SetConfig(c)
    \/ ConnectedCallback

Timeout == \E dir \in Directions : FireSwitchOn(dir)

Environment ==
    \/ \E d \in TickSteps : Tick(d)
    \/ \E id \in FocusTargets : UserFocus(id)
    \/ UserBlur

Next ==
    \/ HostCall(HostSnapshots \cup ReflectedSnapshots, Configs)
    \/ AnimationFrame
    \/ Timeout
    \/ UserCommand
    \/ Environment

Spec == Init /\ [][Next]_vars

\* the element as the host drives it from 23:50 on, the panel left
\* untouched: no listener is called on, and no frame is taken
SyncConfigs ==
    {Config("", Undefined, NoOverrides),
     Config("charge", Undefined, NoOverrides),
     Config("discharge", Undefined, NoOverrides),
     Config("invalid", Undefined, NoOverrides),
     NullConfig}

NextSync == HostCall(ScheduleSnapshots, SyncConfigs) \/ Environment

SpecSync == InitLateEvening /\ [][NextSync]_vars

\* In the specifications of the panel below the user's events reach a
\* section whose listeners are attached (Heard); SpecEndTime and Spec leave
\* them free, an event between a render and its frame included.
\* what the user enters in a duration field before pressing Enable
CmdTimerInputs == {<<"1", "4", "4", "0">>}

\* the panel in the user's hands: sliders, duration fields and Enable
\* buttons, the host pushing all entities or all but one, possibly while a
\* slider holds the focus

CmdSnapshots ==
    {Hass(BaseStates),
     Hass([BaseStates EXCEPT ![DEFAULT_ENTITIES.chargeStart] = Absent])}

NextCmd ==
    \/ \E h \in CmdSnapshots : SetHass(h)
    \/ AnimationFrame
    \/ Timeout
    \/ Heard("charge") /\ ChargingEnableClick
    \/ Heard("discharge") /\ DischargingEnableClick
    \/ \E dir \in Directions : \E kw \in SliderChoices(dom[dir]) :
            Heard(dir) /\ SliderInput(dir, kw)
    \/ Heard("charge") /\ ChargeSliderChange
    \/ Heard("discharge") /\ DischargeSliderChange
    \/ \E dir \in Directions : \E v \in CmdTimerInputs :
            Heard(dir) /\ TimerChange(dir, v)
    \/ UserFocus(SliderId("charge"))
    \/ UserBlur

SpecCmd == Init /\ [][NextCmd]_vars

\* _shouldUpdate on pairs of snapshots: the one the element holds and
\* another one, each the base snapshot or the base snapshot with one entity
\* gone or changed in one field
DiffEntities ==
    {DEFAULT_ENTITIES.chargeEnd, DEFAULT_ENTITIES.dischargingSwitch,
     OtherEntity}

Variants(ent) ==
    {[ent EXCEPT !.state = <<"9">>], [ent EXCEPT !.pw = "true"],
     [ent EXCEPT !.last_changed = 1], [ent EXCEPT !.last_updated = 1],
     [ent EXCEPT !.other = 1], Absent}

DiffSnapshots ==
    {Hass(BaseStates)}
    \cup {Hass([BaseStates EXCEPT ![id] = v]) :
            <<id, v>> \in UNION {{<<i, w>> : w \in Variants(BaseStates[i])} :
                                  i \in DiffEntities}}

DiffConfigs ==
    {Config("", Undefined, NoOverrides),
     Config("charge", Undefined, NoOverrides),
     Config("discharge", Undefined, NoOverrides)}

NextDiff ==
    \/ \E h \in DiffSnapshots : SetHass(h)
    \/ \E c \in DiffConfigs : SetConfig(c)
    \/ AnimationFrame
    \/ \E h \in DiffSnapshots : ShouldUpdateCall(h)

SpecDiff == InitLateEvening /\ [][NextDiff]_vars

\* a schedule from its creation by an Enable button on: the host pushes the
\* entities as they were or as the click wrote them, and time passes
NextSchedule ==
    \/ \E h \in {Hass(BaseStates)} \cup ReflectedSnapshots : SetHass(h)
    \/ AnimationFrame
    \/ Timeout
    \/ Heard("charge") /\ ChargingEnableClick
    \/ Heard("discharge") /\ DischargingEnableClick
    \/ \E dir \in Directions : \E v \in CmdTimerInputs :
            Heard(dir) /\ TimerChange(dir, v)
    \/ \E d \in TickSteps : Tick(d)

SpecSchedule == Init /\ [][NextSchedule]_vars

\* the listeners of a rendered panel: the host pushes both directions
\* running, idle, or running with entities gone, possibly while a slider or
\* an end-time field holds the focus, and may reject a command.  The
\* buttons and sliders are exercised in one specification, the end-time
\* fields in another.
RunningStates ==
    WithSchedule(WithSchedule(BaseStates, "charge", ON, T0830),
                 "discharge", ON, T2400)

PanelEditSnapshots ==
    {Hass(BaseStates), Hass(RunningStates),
     Hass([RunningStates EXCEPT ![DEFAULT_ENTITIES.chargeEnd] = Absent,
                                ![DEFAULT_ENTITIES.chargePower] = Absent]),
     Hass([BaseStates EXCEPT ![DEFAULT_ENTITIES.dischargingSwitch] = Absent])}

\* texts entered in an end-time field: a time, nothing, and 24:00, which is
\* no time and leaves the field empty
PanelEndTimeInputs == {T2355, EmptyStr, T2400}

NextPanel ==
    \/ \E h \in PanelEditSnapshots : SetHass(h)
    \/ AnimationFrame
    \/ Timeout
    \/ Heard("charge") /\ ChargingEnableClick
    \/ Heard("discharge") /\ DischargingEnableClick
    \/ \E dir \in Directions : Heard(dir) /\ DisableClick(dir)
    \/ \E dir \in Directions : \E kw \in SliderChoices(dom[dir]) :
            Heard(dir) /\ SliderInput(dir, kw)
    \/ Heard("charge") /\ ChargeSliderChange
    \/ Heard("discharge") /\ DischargeSliderChange
    \/ \E v \in CmdTimerInputs : Heard("charge") /\ TimerChange("charge", v)
    \/ \E i \in 1..4 : CommandFails(i)
    \/ UserFocus(SliderId("charge"))
    \/ UserBlur

SpecPanel == InitLateEvening /\ [][NextPanel]_vars

\* The end-time fields: the host pushes every entity, idle or running,
\* Lovelace hands over the default configuration or one that names another
\* entity (one the host knows) as the discharge end time, possibly while a
\* field holds the focus.
EndTimeConfigs ==
    {Config("", Undefined, NoOverrides),
     Config("both", Undefined,
            [r \in {"dischargeEnd"} |-> DEFAULT_ENTITIES.chargeEnd])}

NextEndTime ==
    \/ \E h \in {Hass(BaseStates), Hass(RunningStates)} : SetHass(h)
    \/ AnimationFrame
    \/ \E c \in EndTimeConfigs : SetConfig(c)
    \/ \E dir \in Directions : \E v \in PanelEndTimeInputs :
            EndTimeChange(dir, v)
    \/ \E id \in FocusTargets : UserFocus(id)
    \/ UserBlur

SpecEndTime == InitLateEvening /\ [][NextEndTime]_vars

\* Configurations: every way of the mode and of the capacity, the capacity
\* under the key of the README, and overrides of entity names.
EmptyModeConfig ==
    [Config("", Undefined, NoOverrides) EXCEPT !.modeGiven = TRUE]

ReadmeConfig ==
    [Config("both", Undefined, NoOverrides) EXCEPT !.max_discharge_kw = Num(30)]

ChargeOverrides ==
    [r \in {"chargePower", "chargePowerSensor", "gridPower"} |->
        IF r = "chargePower" THEN DEFAULT_ENTITIES.dischargePower
        ELSE OtherEntity]

DischargeOverrides ==
    [r \in {"dischargeEnd"} |-> DEFAULT_ENTITIES.chargeEnd]

ConfigInputs ==
    {Config("", Undefined, NoOverrides),
     EmptyModeConfig,
     Config("charge", Num(30), NoOverrides),
     Config("discharge", Undefined, DischargeOverrides),
     Config("both", Undefined, ChargeOverrides),
     Config("invalid", Undefined, NoOverrides),
     Config("invalid", Num(30), ChargeOverrides),
     Config("both", Num(0), NoOverrides),
     Config("both", Num(0 - 10), NoOverrides),
     Config("both", Str(30), NoOverrides),
     Config("both", NaNValue, NoOverrides),
     ReadmeConfig,
     NullConfig}

ConfigSnapshots == {Hass(BaseStates), Hass(RunningStates)}

NextConfig ==
    \/ \E c \in ConfigInputs : SetConfig(c)
    \/ \E h \in ConfigSnapshots : SetHass(h)
    \/ AnimationFrame
    \/ \E kw \in 0..20 : Heard("charge") /\ SliderInput("charge", kw)
    \/ Heard("charge") /\ ChargeSliderChange
    \/ UserFocus(SliderId("charge"))
    \/ UserBlur

SpecConfig == InitLateEvening /\ [][NextConfig]_vars

\* The panel as a function of the snapshot: every state of a switch and of
\* its pending write, and every set of missing entities of one direction.
SwitchStates == {ON, OFF, <<"u", "n", "a", "v", "a", "i", "l", "a", "b", "l", "e">>}

SwitchSnapshots ==
    {Hass([BaseStates EXCEPT ![DEFAULT_ENTITIES[SwitchRole(dir)]].state = st,
                             ![DEFAULT_ENTITIES[SwitchRole(dir)]].pw = pw]) :
        dir \in Directions, st \in SwitchStates,
        pw \in {"true", "false", "undef"}}

WithoutRoles(states, roles) ==
    [id \in EntityIds |->
        IF \E r \in roles : DEFAULT_ENTITIES[r] = id THEN Absent
        ELSE states[id]]

RoleSet(dir) == {SectionRoles(dir)[i] : i \in 1..5}

MissingSnapshots ==
    {Hass(WithoutRoles(BaseStates, roles)) :
        roles \in UNION {SUBSET RoleSet(dir) : dir \in Directions}}
    \cup {Hass(WithoutRoles(BaseStates, {"chargeEnd", "dischargingSwitch"}))}

RenderConfigs ==
    {Config("both", Undefined, NoOverrides),
     Config("charge", Undefined, NoOverrides),
     Config("discharge", Undefined, NoOverrides)}

NextRender ==
    \/ \E h \in SwitchSnapshots \cup MissingSnapshots : SetHass(h)
    \/ \E c \in RenderConfigs : SetConfig(c)
    \/ AnimationFrame

SpecRender == InitLateEvening /\ [][NextRender]_vars

\* Pushes that keep arriving while time passes: the host reports the
\* charge schedule idle or running, the user takes and leaves the slider.
\* The clock of the model advances MaxTicks times; weak fairness of the
\* clock and of the push that repeats the snapshot held stands for "state
\* pushes keep arriving" without a further change of an entity.
LiveSnapshots ==
    {Hass(BaseStates), Hass(WithSchedule(BaseStates, "charge", ON, T2355))}

Push == \E h \in LiveSnapshots : SetHass(h)

\* the host pushes the snapshot it pushed last
Repush == hass.set /\ SetHass(hass)

Clock == \E d \in TickSteps : Tick(d)

NextLive ==
    \/ Push
    \/ AnimationFrame
    \/ Clock
    \/ UserFocus(SliderId("charge"))
    \/ UserBlur

SpecLive ==
    InitLateEvening /\ [][NextLive]_vars /\ WF_vars(Clock) /\ WF_vars(Repush)

\* The duration field in the user's hands: emptied, filled with a number
\* or with text that is none (which the field reports as the empty
\* string), before Enable is clicked.
DurationInputs ==
    {EmptyStr, <<"4", "5">>, <<"e", "3">>}

NextDuration ==
    \/ \E h \in {Hass(BaseStates), Hass(RunningStates)} : SetHass(h)
    \/ AnimationFrame
    \/ Timeout
    \/ Heard("charge") /\ ChargingEnableClick
    \/ Heard("discharge") /\ DischargingEnableClick
    \/ \E dir \in Directions : \E v \in DurationInputs :
            Heard(dir) /\ TimerChange(dir, NumberSanitize(v))
    \/ \E dir \in Directions : \E v \in PanelEndTimeInputs :
            Heard(dir) /\ EndTimeChange(dir, v)

SpecDuration == InitLateEvening /\ [][NextDuration]_vars

\* The helper functions on their own.  The element is constructed and
\* configured with a maximum output; the inputs of the helpers are drawn at
\* the start and each action applies one helper to them.
MaxOutputs == {5 * k : k \in 1..20}

\* String(n) of a natural number
RECURSIVE Decimal(_)
Decimal(n) ==
    IF n < 10 THEN <<DigitOf(n)>>
    ELSE Decimal(n \div 10) \o <<DigitOf(n % 10)>>

\* the values of the charge-power entity, in tenths of a percent
PowerValues == 0..1000

\* the snapshot in which the charge-power entity has the value v
PowerSnapshot(v) ==
    Hass([BaseStates EXCEPT ![DEFAULT_ENTITIES.chargePower].state = Decimal(v)])

Masks == 0..127

StartClocks == {Pad2(h) \o <<":">> \o Pad2(m) : h \in 0..23, m \in {0, 34, 50, 59}}

Durations == 1..MinutesPerDay

HelperInputs ==
    {[op |-> "percent", input |-> p, percent |-> p, applied |-> 0] :
        p \in 0..100}
    \cup {[op |-> "mask", mask |-> m] : m \in Masks}
    \cup {[op |-> "power", value |-> v] : v \in PowerValues}
    \cup {[op |-> "clock", start |-> c, duration |-> d] :
            c \in StartClocks, d \in Durations}

InitHelpers ==
    /\ mode = "both"
    /\ inverterMaxOutput \in MaxOutputs
    /\ entities = DEFAULT_ENTITIES
    /\ hass = NoHass
    /\ lastForceUpdate = 0
    /\ lastTimerCheck = 0
    /\ now = (23 * 60 + 50) * MsPerMinute
    /\ dom = EmptyDom
    /\ focus = "none"
    /\ timerStore = [d \in Directions |-> EmptyStr]
    /\ pendingOn = [d \in Directions |-> << >>]
    /\ ticks = 0
    /\ sched = NoSchedule
    /\ ev \in HelperInputs
    /\ ev.op \notin {"percent", "power"} => inverterMaxOutput = DefaultMaxOutput

\* percent -> slider kW -> percent, applied to its own result
ApplyRoundTrip ==
    /\ ev.op \in {"percent", "round-trip"}
    /\ ev.applied < MaxApply
    /\ ev' = [op |-> "round-trip", input |-> ev.input,
              percent |-> _kwToPercent(_percentToSliderKw(ev.percent)),
              applied |-> ev.applied + 1]
    /\ UNCHANGED <<mode, inverterMaxOutput, entities, hass, lastForceUpdate,
                   lastTimerCheck, now, dom, focus, timerStore, pendingOn,
                   ticks, sched>>

\* mask -> day selection -> mask
ApplyDayMask ==
    /\ ev.op = "mask"
    /\ ev' = [op |-> "days", mask |-> ev.mask,
              days |-> _getDaysFromMask(ev.mask),
              back |-> _calculateDaymask(_getDaysFromMask(ev.mask))]
    /\ UNCHANGED <<mode, inverterMaxOutput, entities, hass, lastForceUpdate,
                   lastTimerCheck, now, dom, focus, timerStore, pendingOn,
                   ticks, sched>>

ApplyEndTime ==
    /\ ev.op = "clock"
    /\ ev' = [op |-> "end-time", start |-> ev.start, duration |-> ev.duration,
              end |-> _calculateEndTime(ev.start, ev.duration)]
    /\ UNCHANGED <<mode, inverterMaxOutput, entities, hass, lastForceUpdate,
                   lastTimerCheck, now, dom, focus, timerStore, pendingOn,
                   ticks, sched>>

\* the first push of the host, with the charge-power value drawn
FirstPush ==
    /\ ev.op = "power"
    /\ SetHass(PowerSnapshot(ev.value))

NextHelpers ==
    ApplyRoundTrip \/ ApplyDayMask \/ ApplyEndTime \/ FirstPush
    \/ AnimationFrame

SpecHelpers == InitHelpers /\ [][NextHelpers]_vars

-----------------------------------------------------------------------------
(* Properties                                                              *)

\* the focused element is an input of type time or range
FocusOnTimeOrRange ==
    focus \in {"charge-power-slider", "discharge-power-slider",
               "charge-end-time", "discharge-end-time"}

\* the direction is part of the configured mode
DirEnabled(dir) ==
    IF dir = "charge" THEN mode # "discharge" ELSE mode # "charge"

\* the number of commands in cmds equal to c
Count(cmds, c) == Cardinality({i \in 1..Len(cmds) : cmds[i] = c})

\* the switch-off command for the switch of a direction
SwitchOff(dir) ==
    [domain |-> "switch", service |-> "turn_off",
     entity_id |-> entities[SwitchRole(dir)], value |-> << >>]

\* minutes since midnight of the clock, and of a strict HH:MM string
ClockMinutes(t) == (t \div 60000) % 1440
MinutesOf(s) ==
    60 * (10 * DigitVal(s[1]) + DigitVal(s[2]))
    + 10 * DigitVal(s[4]) + DigitVal(s[5])

\* C1: the rendered tree is never replaced while the focused element is an
\* input of type time or range, whichever handler asked for the render
\* (state push, failsafe refresh, setConfig, connectedCallback).
C1_InteractionGuard ==
    [][(ev'.rendered \/ (ev'.op \in {"hass", "config", "connected"} /\ dom' # dom))
          => ~FocusOnTimeOrRange]_vars

\* C1 witness: a handler asked for a render while a time or range input
\* held the focus, and the tree stayed as it was.
C1_Witness ==
    /\ ev.op \in {"config", "hass"} /\ ev.trigger # "none"
    /\ ~ev.rendered /\ FocusOnTimeOrRange

\* the roles of the entities that count for a refresh under the mode
ChargeRelated ==
    {"chargeStart", "chargeEnd", "chargeDayMask", "chargePower",
     "chargingSwitch", "chargePowerSensor", "batteryChargePowerLimit"}
DischargeRelated ==
    {"dischargeStart", "dischargeEnd", "dischargeDayMask", "dischargePower",
     "dischargingSwitch", "dischargePowerSensor"}
ActiveRelevant ==
    {entities[r] : r \in (IF mode # "discharge" THEN ChargeRelated ELSE {})
                         \cup (IF mode # "charge" THEN DischargeRelated ELSE {})}

\* C2: when the snapshot held and the new one differ only in entities
\* outside the relevant set of the mode, shouldRefresh is false.
C2_IrrelevantEntitiesIgnored ==
    (/\ ev.op = "shouldUpdate" /\ hass.set
     /\ \A id \in ActiveRelevant : hass.states[id] = ev.newHass.states[id])
        => ~ev.shouldUpdate

\* C2 witness: in charge mode the snapshots differ in the discharging
\* switch alone and shouldRefresh is false.
C2_Witness ==
    /\ ev.op = "shouldUpdate" /\ hass.set /\ mode = "charge"
    /\ hass.states[entities.dischargingSwitch]
          # ev.newHass.states[entities.dischargingSwitch]
    /\ \A id \in ActiveRelevant : hass.states[id] = ev.newHass.states[id]
    /\ ~ev.shouldUpdate

\* a relevant entity differs in presence, value, pending-write attribute,
\* lastChangedAt or lastUpdatedAt between snapshots a and b
RelevantDifference(a, b) ==
    \E id \in ActiveRelevant :
        LET x == a.states[id]
            y == b.states[id]
        IN  \/ x.present # y.present
            \/ /\ x.present /\ y.present
               /\ \/ x.state # y.state
                  \/ x.pw # y.pw
                  \/ x.last_changed # y.last_changed
                  \/ x.last_updated # y.last_updated

\* C3: shouldRefresh is true exactly when no snapshot is held or a relevant
\* entity differs in presence, value, pending-write attribute, lastChangedAt
\* or lastUpdatedAt; another attribute differing alone yields false.
C3_RefreshExactlyOnRelevantDifference ==
    ev.op = "shouldUpdate"
        => (ev.shouldUpdate <=> (~hass.set \/ RelevantDifference(hass, ev.newHass)))

\* C3 witness: a relevant entity differs in another attribute only and
\* shouldRefresh is false.
C3_Witness ==
    /\ ev.op = "shouldUpdate" /\ hass.set /\ ~ev.shouldUpdate
    /\ \E id \in ActiveRelevant :
          hass.states[id].other # ev.newHass.states[id].other

\* C4: a state push that is the first one, or arrives more than 30000 ms
\* after the last forced refresh, with the interaction guard clear, renders
\* the panel from the pushed snapshot whatever shouldRefresh returns.
C4_FailsafeRefresh ==
    [][(/\ ev'.op = "hass"
        /\ (~hass.set \/ now - lastForceUpdate > 30000)
        /\ ~FocusOnTimeOrRange)
          => (/\ ev'.rendered
              /\ lastForceUpdate' = now
              /\ dom' = RenderTree(hass', mode, entities, inverterMaxOutput,
                                   timerStore))]_vars

\* C4 witness: a later push forced a render although shouldRefresh was false.
C4_Witness ==
    /\ ev.op = "hass" /\ ev.trigger = "force" /\ ev.rendered
    /\ ~ev.shouldUpdate /\ ticks > 0 /\ lastForceUpdate = now

\* charging is on in snapshot h with a valid end time at or before time t
ChargeExpired(h, t) ==
    LET sw == h.states[entities.chargingSwitch]
        end == h.states[entities.chargeEnd]
    IN  /\ sw.present /\ sw.state = ON
        /\ end.present /\ IsHHMM(end.state)
        /\ MinutesOf(end.state) <= ClockMinutes(t)

\* C5 as stated: in a check cycle with charging on and a valid end time at
\* or before the current time the check issues exactly one switch-off for
\* the charging switch, and the setter issues none on a push that arrives
\* 60000 ms or less after a cycle.
C5_OneSwitchOffPerCycle ==
    [][ev'.op = "hass"
          => (/\ (ev'.checked /\ ChargeExpired(hass', now))
                    => Count(ev'.cmds, SwitchOff("charge")) = 1
              /\ (hass.set /\ now - lastTimerCheck <= 60000)
                    => Count(ev'.cmds, SwitchOff("charge")) = 0)]_vars

\* C5 amended: the same, in the modes that include the charging direction.
C5_OneSwitchOffPerCycleInMode ==
    [][ev'.op = "hass"
          => (/\ (ev'.checked /\ mode # "discharge" /\ ChargeExpired(hass', now))
                    => Count(ev'.cmds, SwitchOff("charge")) = 1
              /\ (hass.set /\ now - lastTimerCheck <= 60000)
                    => Count(ev'.cmds, SwitchOff("charge")) = 0)]_vars

\* C5 witness: a cycle that switched charging off, the end time being the
\* current minute.
C5_Witness ==
    /\ ev.op = "hass" /\ ev.checked /\ mode # "discharge"
    /\ ChargeExpired(hass, now)
    /\ MinutesOf(hass.states[entities.chargeEnd].state) = ClockMinutes(now)
    /\ Count(ev.cmds, SwitchOff("charge")) = 1

\* C6: the expiry check runs on a push exactly when the push is the first
\* one or more than 60000 ms have passed since the previous check, whatever
\* the interaction guard, shouldRefresh and the failsafe refresh do, and it
\* reads the pushed snapshot.
C6_ExpiryCadence ==
    [][ev'.op = "hass"
          => (/\ ev'.checked <=> (~hass.set \/ now - lastTimerCheck > 60000)
              /\ ev'.checked
                    => (/\ lastTimerCheck' = now
                        /\ \A dir \in Directions :
                              Count(ev'.cmds, SwitchOff(dir)) > 0
                                 => hass'.states[entities[SwitchRole(dir)]].state = ON)
              /\ ~ev'.checked
                    => (ev'.cmds = << >> /\ lastTimerCheck' = lastTimerCheck))]_vars

\* C6 witness: a later check ran, and switched off what only the pushed
\* snapshot shows running, while the interaction guard held the render back
\* and no forced refresh was due.
C6_Witness ==
    /\ ev.op = "hass" /\ ev.checked /\ ticks > 0
    /\ FocusOnTimeOrRange /\ ~ev.rendered
    /\ Len(ev.cmds) > 0

\* C8 as stated: for an enabled direction whose switch is on, an end time
\* that is not a strict HH:MM string, the empty string included, makes the
\* check issue a switch-off at any current time.
C8_MalformedEndExpires ==
    [][(ev'.op = "hass" /\ ev'.checked)
          => \A dir \in Directions :
                LET sw == hass'.states[entities[SwitchRole(dir)]]
                    end == hass'.states[entities[EndRole(dir)]]
                IN  (/\ DirEnabled(dir)
                     /\ sw.present /\ sw.state = ON
                     /\ end.present /\ ~IsHHMM(end.state))
                       => Count(ev'.cmds, SwitchOff(dir)) = 1]_vars

\* C8 amended: a non-empty end time that is not a strict HH:MM string makes
\* the check issue a switch-off at any current time; with the empty string
\* the check issues none.
C8_NonEmptyMalformedEndExpires ==
    [][(ev'.op = "hass" /\ ev'.checked)
          => \A dir \in Directions :
                LET sw == hass'.states[entities[SwitchRole(dir)]]
                    end == hass'.states[entities[EndRole(dir)]]
                IN  (/\ DirEnabled(dir)
                     /\ sw.present /\ sw.state = ON
                     /\ end.present /\ ~IsHHMM(end.state))
                       => Count(ev'.cmds, SwitchOff(dir)) =
                             (IF end.state = EmptyStr THEN 0 ELSE 1)]_vars

\* C8 witness: a check at 23:50 or later switched off a direction whose end
\* time reads 24:00.
C8_Witness ==
    /\ ev.op = "hass" /\ ev.checked
    /\ \E dir \in Directions :
          /\ DirEnabled(dir)
          /\ hass.states[entities[SwitchRole(dir)]].state = ON
          /\ hass.states[entities[EndRole(dir)]].state = T2400
          /\ Count(ev.cmds, SwitchOff(dir)) = 1

\* the switch of a direction is on in the snapshot held
SwitchIsOn(dir) ==
    LET sw == hass.states[entities[SwitchRole(dir)]]
    IN  sw.present /\ sw.state = ON

\* HH:MM of a minute of the day
ClockString(minutes) ==
    Pad2((minutes % 1440) \div 60) \o <<":">> \o Pad2(minutes % 60)

\* the bit of the weekday of time t, Monday being bit 0 (1970-01-01 was a
\* Thursday)
TodayBit(t) == 2 ^ ((3 + t \div 86400000) % 7)

\* the write of value v to the entity of role r
WriteOf(r, domain, v) ==
    [domain |-> domain, service |-> "set_value", entity_id |-> entities[r],
     value |-> v]

\* the four targets of a new schedule for dir written at time t with
\* duration d: start, end, day mask, power (the power value left open)
NewScheduleWrites(dir, t, d) ==
    <<WriteOf(StartRole(dir), "text", ClockString(ClockMinutes(t))),
      WriteOf(EndRole(dir), "text", ClockString(ClockMinutes(t) + d)),
      WriteOf(DayMaskRole(dir), "number", TodayBit(t)),
      WriteOf(PowerRole(dir), "number", 0)>>

\* cmds are the writes of expected, the value of a power write left open
SameWrites(cmds, expected) ==
    /\ Len(cmds) = Len(expected)
    /\ \A i \in 1..Len(cmds) :
          /\ cmds[i].domain = expected[i].domain
          /\ cmds[i].service = expected[i].service
          /\ cmds[i].entity_id = expected[i].entity_id
          /\ cmds[i].entity_id \notin {entities.chargePower, entities.dischargePower}
                => cmds[i].value = expected[i].value

\* the switch-on of a new schedule comes alone and later: the click queues
\* one callback for the switch and issues no switch-on itself, and a
\* callback issues one switch-on
SwitchOnFollows ==
    /\ (ev'.op \in {"enable", "extend"} /\ ~SwitchIsOn(ev'.dir))
          => (/\ pendingOn' = [pendingOn EXCEPT ![ev'.dir] =
                                  Append(@, entities[SwitchRole(ev'.dir)])]
              /\ \A i \in 1..Len(ev'.cmds) : ev'.cmds[i].service = "set_value")
    /\ ev'.op = "timeout"
          => (/\ Len(pendingOn[ev'.dir]) = Len(pendingOn'[ev'.dir]) + 1
              /\ ev'.cmds = <<[domain |-> "switch", service |-> "turn_on",
                               entity_id |-> Head(pendingOn[ev'.dir]),
                               value |-> << >>]>>)

\* C9 as stated: a click on Enable while the switch of the direction is not
\* on issues the four writes (start = now, end = now + duration, day mask =
\* today's bit, power) and then, later, exactly one switch-on.
C9_FourWritesThenSwitchOn ==
    [][/\ (ev'.op \in {"enable", "extend"} /\ ~SwitchIsOn(ev'.dir))
             => SameWrites(ev'.cmds,
                           NewScheduleWrites(ev'.dir, now,
                                             ParseInt(dom[ev'.dir].timer)))
       /\ SwitchOnFollows]_vars

\* C9 amended: the click issues, in that order, the writes among the four
\* whose target entity is in the snapshot held, and then, later, exactly one
\* switch-on.
C9_PresentWritesThenSwitchOn ==
    [][/\ (ev'.op \in {"enable", "extend"} /\ ~SwitchIsOn(ev'.dir))
             => SameWrites(ev'.cmds,
                           SelectSeq(NewScheduleWrites(ev'.dir, now,
                                         ParseInt(dom[ev'.dir].timer)),
                                     LAMBDA c : hass.states[c.entity_id].present))
       /\ SwitchOnFollows]_vars

\* C9 witness: a click on Enable issued four writes, the end time past
\* midnight, and its switch-on is still to come.
C9_Witness ==
    /\ ev.op = "enable" /\ Len(ev.cmds) = 4
    /\ ev.cmds[2].value = ClockString(ClockMinutes(now) + 30)
    /\ ClockMinutes(now) + 30 >= 1440
    /\ Len(pendingOn[ev.dir]) = 1

\* a / b rounded to the nearest integer, halves up (a >= 0, b > 0)
RoundDiv(a, b) == (2 * a + b) \div (2 * b)

\* C10 (as stated): every value written to the charge-power entity, by a
\* slider commit or by a new schedule, is round(kW / maxOutputKw * 100) * 10
\* and every value written to the discharge-power entity is
\* round(kW / maxOutputKw * 100), kW being the value of the slider.
C10_StorageUnits ==
    [][\A i \in 1..Len(ev'.cmds) :
          LET c == ev'.cmds[i]
          IN  /\ (c.service = "set_value" /\ c.entity_id = entities.chargePower)
                    => c.value = RoundDiv(dom.charge.slider * 500,
                                          inverterMaxOutput) * 10
              /\ (c.service = "set_value" /\ c.entity_id = entities.dischargePower)
                    => c.value = RoundDiv(dom.discharge.slider * 500,
                                          inverterMaxOutput)]_vars

\* the schedule of sched is the one the pushed snapshot h shows running
ShowsSchedule(h) ==
    /\ sched.set
    /\ h.states[entities[SwitchRole(sched.dir)]].state = ON
    /\ h.states[entities[EndRole(sched.dir)]].state = sched.end

\* C7 (as stated): for a schedule the enable flow created at minute t with
\* a duration of d minutes (1 <= d <= 1440), once the snapshot shows the
\* written end time and the switch on, no expiry check in [t, t + d) issues
\* a switch-off for the direction, also when t + d is past midnight.
C7_NoSwitchOffBeforeEnd ==
    [][(/\ ev'.op = "hass" /\ ev'.checked
        /\ ShowsSchedule(hass')
        /\ sched.duration >= 1 /\ sched.duration <= 1440
        /\ now \div 60000 < sched.at \div 60000 + sched.duration)
          => Count(ev'.cmds, SwitchOff(sched.dir)) = 0]_vars

\* the entity of role r is in the snapshot held
Present(r) == hass.states[entities[r]].present

\* C11 as stated: a click on Enable while the switch of the direction is on
\* in the snapshot held issues exactly one command, the write of current
\* time + duration to the end-time entity of the direction, and queues no
\* switch-on.
C11_ExtendWritesEndOnly ==
    [][(ev'.op \in {"enable", "extend"} /\ SwitchIsOn(ev'.dir))
          => (/\ ev'.cmds =
                   <<WriteOf(EndRole(ev'.dir), "text",
                             ClockString(ClockMinutes(now)
                                         + ParseInt(dom[ev'.dir].timer)))>>
              /\ pendingOn' = pendingOn)]_vars

\* C11 amended: the click issues that one write when the end-time entity is
\* in the snapshot held and no command at all when it is not; in neither
\* case does it queue a switch-on.
C11_ExtendWritesEndIfPresent ==
    [][(ev'.op \in {"enable", "extend"} /\ SwitchIsOn(ev'.dir))
          => (/\ ev'.cmds =
                   (IF Present(EndRole(ev'.dir))
                    THEN <<WriteOf(EndRole(ev'.dir), "text",
                                   ClockString(ClockMinutes(now)
                                               + ParseInt(dom[ev'.dir].timer)))>>
                    ELSE << >>)
              /\ pendingOn' = pendingOn)]_vars

\* C11 witness: a click on Extend at 23:50 wrote 00:20 to the end-time
\* entity and nothing else, no switch-on queued.
C11_Witness ==
    /\ ev.op = "extend" /\ SwitchIsOn(ev.dir)
    /\ ev.cmds = <<WriteOf(EndRole(ev.dir), "text", <<"0", "0", ":", "2", "0">>)>>
    /\ pendingOn[ev.dir] = << >>

\* C12 (as stated): every command the widget issues, value write or switch
\* command, goes to an entity that is in the snapshot held when it is
\* issued.
C12_NoCommandToAbsentEntity ==
    [][ev'.op \in RoutineOps \cup DirectOps
          => \A i \in 1..Len(ev'.cmds) :
                hass'.states[ev'.cmds[i].entity_id].present]_vars

\* C13 (as stated): when a command fails, whichever it is, the widget logs
\* the failure, dispatches one notification event and issues no command in
\* response.
C13_FailureNotified ==
    ev.op = "failed"
        => (ev.logged /\ ev.notifications = 1 /\ ev.cmds = << >>)

\* cmds is one write to the power entity of the direction
OnePowerWrite(cmds, dir) ==
    /\ Len(cmds) = 1
    /\ cmds[1].domain = "number" /\ cmds[1].service = "set_value"
    /\ cmds[1].entity_id = entities[PowerRole(dir)]

\* C19 as stated: an input event of a power slider issues no command, and a
\* change event issues exactly one write, to the power entity of the
\* direction.
C19_SliderWritesOnChangeOnly ==
    [][/\ ev'.op = "slider-input"
             => (ev'.cmds = << >> /\ pendingOn' = pendingOn)
       /\ ev'.op = "slider-change"
             => (OnePowerWrite(ev'.cmds, ev'.dir) /\ pendingOn' = pendingOn)]_vars

\* C19 amended: an input event issues no command; a change event issues
\* exactly one write, to the power entity of the direction, when that
\* entity is in the snapshot held, and no command when it is not.
C19_SliderWritesOnChangeIfPresent ==
    [][/\ ev'.op = "slider-input"
             => (ev'.cmds = << >> /\ pendingOn' = pendingOn)
       /\ ev'.op = "slider-change"
             => (/\ IF Present(PowerRole(ev'.dir))
                    THEN OnePowerWrite(ev'.cmds, ev'.dir)
                    ELSE ev'.cmds = << >>
                 /\ pendingOn' = pendingOn)]_vars

\* C19 witness: a slider dragged to its maximum and released wrote the
\* power entity once.
C19_Witness ==
    /\ ev.op = "slider-change" /\ OnePowerWrite(ev.cmds, ev.dir)
    /\ dom[ev.dir].slider = dom[ev.dir].max
    /\ dom[ev.dir].slider # dom[ev.dir].min

\* C20: a click on Disable issues exactly one command, the switch-off of
\* the switch of the direction, and no write; no switch-on is queued.
C20_DisableSwitchesOffOnly ==
    [][ev'.op = "disable"
          => (ev'.cmds = <<SwitchOff(ev'.dir)>> /\ pendingOn' = pendingOn)]_vars

\* C20 witness: a click on Disable of a running direction issued one
\* command, a switch-off.
C20_Witness ==
    /\ ev.op = "disable" /\ dom[ev.dir].enabled
    /\ Len(ev.cmds) = 1 /\ ev.cmds[1].service = "turn_off"

\* v is the text of a minute of the day, 00:00 to 23:59
StrictClock(v) == \E m \in 0..(MinutesPerDay - 1) : v = ClockString(m)

\* the text an end-time field falls back to after a rejected entry
RevertValue(dir) ==
    IF Present(EndRole(dir)) /\ StrictClock(hass.states[entities[EndRole(dir)]].state)
    THEN hass.states[entities[EndRole(dir)]].state
    ELSE T0000

\* C18 as stated: a change of an end-time field to a strict HH:MM text
\* issues exactly one write of that text to the end-time entity of the
\* direction; a change to any other text issues no write and resets the
\* field to the end time in the snapshot held if that is a strict HH:MM
\* text, and to 00:00 otherwise.
C18_EndTimeWriteOrRevert ==
    [][ev'.op = "end-change"
          => IF StrictClock(ev'.input)
             THEN ev'.cmds = <<WriteOf(EndRole(ev'.dir), "text", ev'.input)>>
             ELSE /\ ev'.cmds = << >>
                  /\ dom'[ev'.dir].endValue = RevertValue(ev'.dir)]_vars

\* the percentages the conversions are compared at
Percents == {0, 10, 25, 50, 75, 100}

\* C14 as stated: setConfig throws for every configuration whose mode is a
\* value other than charge, discharge or both, and nothing is rendered
\* during that call; a configuration without a mode gets the mode both.
C14_InvalidModeThrows ==
    [][(ev'.op = "config" /\ ~ev'.config.isNull)
          => /\ (ev'.config.modeGiven
                    /\ ev'.config.mode \notin {"charge", "discharge", "both"})
                   => (ev'.threw /\ ~ev'.rendered /\ dom' = dom)
             /\ ~ev'.config.modeGiven => mode' = "both"]_vars

\* C14 amended: setConfig throws for every configuration whose mode is a
\* non-empty value other than charge, discharge or both, and nothing is
\* rendered during that call; a configuration without a mode, or with an
\* empty one, gets the mode both.
C14_NonEmptyInvalidModeThrows ==
    [][(ev'.op = "config" /\ ~ev'.config.isNull)
          => /\ ev'.config.mode \notin {"", "charge", "discharge", "both"}
                   => (ev'.threw /\ ~ev'.rendered /\ dom' = dom)
             /\ ev'.config.mode = "" => mode' = "both"]_vars

\* C14 witness: with a snapshot held and a panel on screen, a configuration
\* of mode "invalid" threw and the panel is the one of before.
C14_Witness ==
    /\ ev.op = "config" /\ ev.threw /\ ~ev.rendered
    /\ ev.config.mode = "invalid"
    /\ hass.set /\ dom.html
    /\ dom.charge.kind = "controls"

\* C15: setConfig throws for every configuration that gives a maxOutput
\* which is not a positive number (zero, a negative number, a non-number).
C15_NonPositiveMaxOutputThrows ==
    [][(/\ ev'.op = "config" /\ ~ev'.config.isNull
        /\ ev'.config.maxOutput.t # "undef"
        /\ ~(ev'.config.maxOutput.t = "num" /\ ev'.config.maxOutput.v > 0))
          => ev'.threw]_vars

\* C16: after setConfig with max_discharge_kw = x, x a positive number,
\* the conversions between percent and kW use x as the maximum output.
C16_ReadmeKeySetsCapacity ==
    [][(/\ ev'.op = "config" /\ ~ev'.threw
        /\ ev'.config.max_discharge_kw.t = "num"
        /\ ev'.config.max_discharge_kw.v > 0)
          => \A p \in Percents :
                _percentToSliderKw(p)'
                    = _percentToSliderKwAt(p, ev'.config.max_discharge_kw.v)]_vars

\* C17: after a successful setConfig every role resolves to the override of
\* that configuration if it gives one and to the default otherwise; nothing
\* else changes the map, a setConfig that throws included.
C17_EntitiesFromLastConfig ==
    [][IF ev'.op = "config" /\ ~ev'.threw
       THEN \A r \in Roles :
               entities'[r] = IF r \in DOMAIN ev'.config.entities
                              THEN ev'.config.entities[r]
                              ELSE DEFAULT_ENTITIES[r]
       ELSE entities' = entities]_vars

\* C17 witness: a configuration that overrides the discharge end time only
\* followed one that overrode the charge power, whose override is gone.
C17_Witness ==
    /\ ev.op = "config" /\ ~ev.threw
    /\ ev.before.chargePower # DEFAULT_ENTITIES.chargePower
    /\ ev.config.entities = DischargeOverrides
    /\ entities.chargePower = DEFAULT_ENTITIES.chargePower
    /\ entities.dischargeEnd = DEFAULT_ENTITIES.chargeEnd

\* C21: the round trip percent -> slider kW -> percent is idempotent: a
\* further application to its own result changes nothing, for every percent
\* 0..100 and every maximum output 0.5 .. 10 kW in steps of 0.5.
C21_RoundTripIdempotent ==
    [][(ev.op = "round-trip" /\ ev'.op = "round-trip")
          => ev'.percent = ev.percent]_vars

\* C21 witness: a round trip that lost precision (the result differs from
\* the percent it started from) was applied a second time.
C21_Witness ==
    /\ ev.op = "round-trip" /\ ev.applied = 2
    /\ ev.percent # ev.input

\* C22: the mask computed from the day selection of a mask m in 0..127 is
\* m, and weekday i (0 = Monday .. 6 = Sunday) is selected exactly when
\* bit i of m is set.
C22_DayMaskRoundTrip ==
    ev.op = "days"
       => /\ ev.back = ev.mask
          /\ \A i \in 0..6 :
                ev.days[DayKeys[i + 1]] <=> ((ev.mask \div 2 ^ i) % 2 = 1)

\* C22 witness: the mask 65 gave Monday and Sunday and nothing else, and
\* came back as 65.
C22_Witness ==
    /\ ev.op = "days" /\ ev.mask = 65 /\ ev.back = 65
    /\ {d \in DOMAIN ev.days : ev.days[d]} = {"monday", "sunday"}

\* C23: the end time of a start HH:MM and a duration d in 1..1440 is the
\* HH:MM text of (60 * HH + MM + d) mod 1440.
C23_EndTimeWraps ==
    ev.op = "end-time"
       => ev.end = ClockString((60 * SplitHours(ev.start)
                                + SplitMinutes(ev.start) + ev.duration) % 1440)

\* C23 witness: 23:50 plus 20 minutes gave 00:10.
C23_Witness ==
    /\ ev.op = "end-time"
    /\ ev.start = <<"2", "3", ":", "5", "0">> /\ ev.duration = 20
    /\ ev.end = <<"0", "0", ":", "1", "0">>

\* C24: in every render of a section with controls, the slider and the
\* Enable button are disabled exactly when the pending-write attribute of
\* the switch is true, the Disable button is enabled exactly when the
\* switch is on and not pending, and the status is the pending indicator
\* when pending, otherwise Active when on and Inactive when not.
C24_ControlLocking ==
    [][ev'.rendered
          => \A dir \in Directions :
                dom'[dir].kind = "controls"
                   => LET sw == hass'.states[entities'[SwitchRole(dir)]]
                          isPending == sw.pw = "true"
                          isOn == sw.state = ON
                      IN  /\ dom'[dir].sliderDisabled = isPending
                          /\ dom'[dir].enableDisabled = isPending
                          /\ dom'[dir].disableDisabled = ~(isOn /\ ~isPending)
                          /\ dom'[dir].status =
                                IF isPending THEN "pending"
                                ELSE IF isOn THEN "active" ELSE "inactive"]_vars

\* C24 witness: a render with the charging switch on and a write pending
\* on it: slider, Enable and Disable are disabled and the status is the
\* pending indicator.
C24_Witness ==
    /\ ev.rendered /\ dom.charge.kind = "controls"
    /\ hass.states[entities.chargingSwitch].state = ON
    /\ hass.states[entities.chargingSwitch].pw = "true"
    /\ dom.charge.sliderDisabled /\ dom.charge.enableDisabled
    /\ dom.charge.disableDisabled /\ dom.charge.status = "pending"

\* the required roles of dir whose entity is not in the snapshot
MissingRoles(dir) ==
    {r \in {StartRole(dir), EndRole(dir), DayMaskRole(dir), PowerRole(dir),
            SwitchRole(dir)} : ~Present(r)}

\* C25: in mode both, a render gives a direction of which a required
\* entity is absent an error that names exactly the absent ones, and no
\* controls, and gives a direction whose five entities are present its
\* controls, whatever is missing of the other direction.
C25_MissingEntityDegradation ==
    [][(ev'.rendered /\ mode' = "both")
          => \A dir \in Directions :
                IF MissingRoles(dir)' # {}
                THEN /\ dom'[dir].kind = "error"
                     /\ Len(dom'[dir].missing) = Cardinality(MissingRoles(dir)')
                     /\ {dom'[dir].missing[i] : i \in 1..Len(dom'[dir].missing)}
                           = {entities'[r] : r \in MissingRoles(dir)'}
                ELSE dom'[dir].kind = "controls"]_vars

\* C25 witness: the charging section shows an error naming two missing
\* entities next to a discharging section with its controls.
C25_Witness ==
    /\ ev.rendered /\ mode = "both"
    /\ dom.charge.kind = "error" /\ Len(dom.charge.missing) = 2
    /\ Cardinality(MissingRoles("charge")) = 2
    /\ dom.discharge.kind = "controls"

\* C26: after every render the charge power shown for the value v of the
\* charge-power entity (tenths of a percent, 0..1000) under the maximum
\* output M is round(round(v / 10) / 100 * M * 2) / 2 kW (here in half kW,
\* M in tenths of a kW).
C26_ChargePowerDisplay ==
    [][(ev'.op = "hass" /\ ev'.rendered /\ dom'.charge.kind = "controls")
          => LET v == ParseInt(hass'.states[entities'.chargePower].state)
             IN  dom'.charge.label
                    = RoundDiv(2 * RoundDiv(v, 10) * inverterMaxOutput', 1000)]_vars

\* C26 witness: with 5.0 kW and the entity at 500 the panel shows 2.5 kW.
C26_Witness ==
    /\ ev.op = "hass" /\ ev.rendered /\ dom.charge.kind = "controls"
    /\ inverterMaxOutput = 50
    /\ hass.states[entities.chargePower].state = <<"5", "0", "0">>
    /\ dom.charge.label = 5 /\ dom.charge.slider = 5

\* C27: a setConfig call that throws leaves the mode, the maximum output
\* and the entity map as they were before the call.
C27_FailedConfigChangesNothing ==
    [][(ev'.op = "config" /\ ev'.threw)
          => /\ mode' = mode
             /\ inverterMaxOutput' = inverterMaxOutput
             /\ entities' = entities]_vars

\* the panel on screen is not the one of the snapshot held
Stale ==
    /\ hass.set /\ dom.html
    /\ Markup(dom) # Markup(RenderTree(hass, mode, entities, inverterMaxOutput,
                                       timerStore))

\* the clock of the model can still pass the failsafe interval
ClockCanPassInterval ==
    (MaxTicks - ticks) * ForceUpdateInterval + (now - lastForceUpdate)
        > ForceUpdateInterval

\* a refresh was suppressed and the guard is clear again
LostRefresh == Stale /\ ~_isUserInteracting /\ ClockCanPassInterval

\* C28: a refresh suppressed by the interaction guard is not lost: from a
\* state where the panel is behind the snapshot and the guard is clear,
\* with pushes arriving and time passing, the panel is eventually rendered
\* from the snapshot held, unless the guard comes up again.
C28_SuppressedRefreshRecovered ==
    LostRefresh ~> (~Stale \/ _isUserInteracting)

\* C28 witness: the charge schedule started while the slider was held, the
\* panel still shows it idle, and the slider has been let go.
C28_Witness ==
    /\ LostRefresh
    /\ hass.states[entities.chargingSwitch].state = ON
    /\ dom.charge.kind = "controls" /\ ~dom.charge.enabled
    /\ ev.op = "idle" /\ focus = "none"

\* C29: a click on Enable of which a schedule write was rejected (fewer
\* than four writes were issued) brings no switch-on: it leaves no callback
\* behind, a callback being what issues the switch-on 100 ms later.
C29_NoSwitchOnAfterRejectedWrite ==
    [][(ev'.op = "enable" /\ Len(ev'.cmds) < 4) => pendingOn' = pendingOn]_vars

\* C30: every value written to a start-time or end-time entity, by an
\* Enable button (new schedule or extend) or by an end-time field, is a
\* strict HH:MM text, whatever the duration field holds.
C30_TimeWritesAreClockTexts ==
    [][ev'.op \in {"enable", "extend", "end-change"}
          => \A i \in 1..Len(ev'.cmds) :
                ev'.cmds[i].domain = "text" => IsHHMM(ev'.cmds[i].value)]_vars

=============================================================================
